---- MODULE Spec2Model ----
(***************************************************************************)
(* State-machine model of the OpenNIC filter context server (the enhanced  *)
(* server, src/unnamed/part_002): the request handlers registered on the   *)
(* MCP Server object, the executeCommand subprocess runner and the file    *)
(* helpers.  Every request in flight occupies one slot; a handler runs     *)
(* atomically between two awaits, and every await (fs.access, fs.readFile, *)
(* the executeCommand promise) is a separate step of the environment.      *)
(*                                                                         *)
(* Strings that the code only copies are kept as TLA+ strings.  Texts the  *)
(* code assembles are records naming the template and its holes.  The      *)
(* output of a child is a sequence of byte chunks (numbers 0..255); the    *)
(* strings executeCommand accumulates are sequences of code points.        *)
(***************************************************************************)
EXTENDS Integers, Sequences, FiniteSets, TLC

\* ------------------------------------------------------------------ bounds

\* Requests that can be in flight at once.
NumSlots == 1

\* Data events one child delivers (stdout and stderr together) in Spec.
MaxChunks == 1

\* Data events one child delivers in SpecRunner.
MaxRunnerChunks == 2

Slots == 1..NumSlots

\* The invocations in flight at once in SpecOverlap.
NumOverlap == 2

\* The longest text, in lexemes, of the texts SpecTexts enumerates.
MaxTextLen == 4

\* ------------------------------------------------------------- catalogue

\* A value the request or the code left out (JavaScript undefined).
Undefined == "<undefined>"

ResourceDescriptors ==
    << [uri |-> "opennic://filter-requirements", mimeType |-> "text/plain"],
       [uri |-> "opennic://filter-implementation", mimeType |-> "text/markdown"],
       [uri |-> "opennic://register-map", mimeType |-> "text/markdown"],
       [uri |-> "opennic://simulation-guide", mimeType |-> "text/markdown"],
       [uri |-> "opennic://debug-workflow", mimeType |-> "text/markdown"] >>

\* inputSchema of each tool: its properties, the enum of the enum-typed one
\* (empty when none) and the required list.
ToolDescriptors ==
    << [name |-> "run-filter-simulation",
        properties |-> {"test_type", "debug", "waves"},
        enumOf |-> "test_type",
        enum |-> {"basic", "advanced", "csr", "performance", "all"},
        required |-> {"test_type"}],
       [name |-> "analyze-verilog-syntax",
        properties |-> {"file_path", "check_packages"},
        enumOf |-> Undefined,
        enum |-> {},
        required |-> {"file_path"}],
       [name |-> "check-interface-compatibility",
        properties |-> {"testbench_file", "rtl_file"},
        enumOf |-> Undefined,
        enum |-> {},
        required |-> {"testbench_file", "rtl_file"}],
       [name |-> "suggest-makefile-fixes",
        properties |-> {"makefile_path"},
        enumOf |-> Undefined,
        enum |-> {},
        required |-> {"makefile_path"}],
       [name |-> "cross-reference-signals",
        properties |-> {"hierarchy_level"},
        enumOf |-> "hierarchy_level",
        enum |-> {"top", "filter", "parser", "all"},
        required |-> {"hierarchy_level"}],
       [name |-> "check-requirements-compliance",
        properties |-> {"requirement_type"},
        enumOf |-> "requirement_type",
        enum |-> {"functional", "interface", "performance", "all"},
        required |-> {"requirement_type"}] >>

PromptDescriptors ==
    << [name |-> "create-test-scenario",
        arguments |-> <<"scenario_type", "packet_type", "include_debug">>,
        required |-> {"scenario_type"}],
       [name |-> "debug-workflow-guide",
        arguments |-> <<"issue_type", "symptoms">>,
        required |-> {"issue_type"}] >>

Range(f) == {f[i] : i \in DOMAIN f}

ListedResourceIds == {d.uri : d \in Range(ResourceDescriptors)}
ListedToolIds == {d.name : d \in Range(ToolDescriptors)}
ListedPromptIds == {d.name : d \in Range(PromptDescriptors)}

ToolDescriptor(name) == CHOOSE d \in Range(ToolDescriptors) : d.name = name
PromptDescriptor(name) == CHOOSE d \in Range(PromptDescriptors) : d.name = name

\* ------------------------------------------------------------ text models

RECURSIVE Flatten(_)
\* The concatenation of a sequence of sequences.
Flatten(ss) == IF ss = <<>> THEN <<>> ELSE Head(ss) \o Flatten(Tail(ss))

IsAscii(b) == b < 128
IsLead2(b) == b \in 194..223
IsCont(b) == b \in 128..191

RECURSIVE Utf8Decode(_)
\* Buffer.prototype.toString(): the UTF-8 decoding of one buffer, on the byte
\* classes the model's chunks hold (ASCII, two-byte sequences, stray bytes).
\* A lead byte that no continuation byte follows in the same buffer, and a
\* continuation byte with no lead, decode to U+FFFD (65533).
Utf8Decode(bytes) ==
    IF bytes = <<>> THEN <<>>
    ELSE IF IsAscii(Head(bytes)) THEN <<Head(bytes)>> \o Utf8Decode(Tail(bytes))
    ELSE IF IsLead2(Head(bytes)) /\ Len(bytes) >= 2 /\ IsCont(bytes[2])
         THEN <<(Head(bytes) - 192) * 64 + (bytes[2] - 128)>>
                  \o Utf8Decode(Tail(Tail(bytes)))
    ELSE <<65533>> \o Utf8Decode(Tail(bytes))

\* A command line is the sequence of its whitespace-separated words; joining
\* with ' ' concatenates, and the shell's field splitting gives the words
\* back.  ";" is the shell's command separator.
ShellSeparator == ";"

\* child_process.spawn with shell: true: [file, ...args].join(' ') becomes the
\* command string of /bin/sh -c.
ShellCommandLine(command, args) == <<command>> \o Flatten(args)

RECURSIVE FirstSimpleCommand(_)
\* The words of a command line up to its first command separator.
FirstSimpleCommand(words) ==
    IF words = <<>> \/ Head(words) = ShellSeparator THEN <<>>
    ELSE <<Head(words)>> \o FirstSimpleCommand(Tail(words))

\* What the shell starts for a command line: the program and the arguments
\* the program receives, one per word.
ShellExec(line) ==
    LET words == FirstSimpleCommand(line)
    IN  [file |-> IF words = <<>> THEN Undefined ELSE Head(words),
         argv |-> IF words = <<>> THEN <<>> ELSE Tail(words),
         more |-> Len(words) < Len(line)]

\* --------------------------------------------------------- executeCommand

NoRun == [state |-> "none"]

Pending == [state |-> "pending"]

\* Settle with the last settlement standing.
SettleLast(promise, settled) == settled

\* resolve / reject of a Promise: the first settlement stands.
Settle(promise, settled) == IF promise.state = "pending" THEN settled ELSE promise

\* spawn(command, args, {cwd, stdio, shell: true}) and the two accumulators.
Spawn(command, args, cwd) ==
    [state |-> "spawned",
     command |-> command, args |-> args, cwd |-> cwd,
     shellLine |-> ShellCommandLine(command, args),
     childCwd |-> cwd,
     stdout |-> <<>>, stderr |-> <<>>,
     promise |-> Pending]

\* OnStdoutData with a listener that also settles the promise.
OnStdoutDataSettling(r, data) ==
    [r EXCEPT !.stdout = @ \o Utf8Decode(data),
              !.promise = Settle(@, [state |-> "resolved",
                                     value |-> [stdout |-> r.stdout \o Utf8Decode(data),
                                                stderr |-> r.stderr]])]

\* process.stdout.on('data'): stdout += data.toString()
OnStdoutData(r, data) == [r EXCEPT !.stdout = @ \o Utf8Decode(data)]

\* process.stderr.on('data'): stderr += data.toString()
OnStderrData(r, data) == [r EXCEPT !.stderr = @ \o Utf8Decode(data)]

\* The exit status of a close event: [code |-> n], or [signal |-> name] for a
\* child a signal ended (code is then null).  code === 0:
ExitedZero(status) == "code" \in DOMAIN status /\ status.code = 0

\* new Error(`Command failed with exit code ${code}: ${stderr}`)
CommandFailedError(status, stderr) ==
    [kind |-> "CommandFailed", status |-> status, stderr |-> stderr]

\* OnClose without the test of the exit code.
OnCloseIgnoringCode(r, status) ==
    [r EXCEPT !.promise =
        Settle(@, [state |-> "resolved",
                   value |-> [stdout |-> r.stdout, stderr |-> r.stderr]])]

\* process.on('close')
OnClose(r, status) ==
    [r EXCEPT !.promise =
        IF ExitedZero(status)
        THEN Settle(@, [state |-> "resolved",
                        value |-> [stdout |-> r.stdout, stderr |-> r.stderr]])
        ELSE Settle(@, [state |-> "rejected",
                        reason |-> CommandFailedError(status, r.stderr)])]

\* process.on('error')
OnError(r, error) ==
    [r EXCEPT !.promise = Settle(@, [state |-> "rejected", reason |-> error])]

\* ------------------------------------------------------------ environment

\* A child the operating system has not been asked for.
NoChild == [state |-> "none"]

\* The child of a spawn: whether the shell could be started in the working
\* directory, the chunks it has written to each stream, the events the
\* ChildProcess object has emitted and the status its close event carried.
NewChild(spawnOk) ==
    [state |-> "child", spawnOk |-> spawnOk,
     out |-> <<>>, err |-> <<>>,
     errored |-> FALSE, closed |-> FALSE, status |-> [pending |-> TRUE]]

\* The error Node emits for a spawn that failed.
SpawnError(cwd) ==
    [kind |-> "SpawnError", errno |-> "ENOENT", syscall |-> "spawn /bin/sh", cwd |-> cwd]

\* The exit statuses of a child that was started: exit codes, or a signal.
ExitStatuses == {[code |-> 0], [code |-> 1], [code |-> 127], [signal |-> "SIGTERM"]}

\* The status of the close event that follows the error event of a failed
\* spawn (the negated errno).
FailedSpawnStatus == [code |-> -2]

\* The outcomes of fs.readFile(path, 'utf-8'): the content, or an error.
ReadOk(content) == [ok |-> TRUE, content |-> content]
ReadError == [ok |-> FALSE, error |-> "ENOENT"]

\* --------------------------------------------------------------- helpers

\* readFileContent: the content, or the error rethrown as
\* new Error(`Failed to read file ${filePath}: ${error}`).
readFileContent(filePath, outcome) ==
    IF outcome.ok
    THEN [ok |-> TRUE, value |-> outcome.content]
    ELSE [ok |-> FALSE,
          error |-> [kind |-> "ReadFailed", path |-> filePath, errno |-> outcome.error]]

\* ------------------------------------------------------------- responses

NoReq == [method |-> "none"]
NoResp == [kind |-> "none"]
NoLocals == [stage |-> "none"]

\* One content block of kind "text".
TextBlock(text) == [type |-> "text", text |-> text]

\* A text that is the content of a file, and a text the code holds as a literal.
FileText(content) == [tag |-> "file", lexemes |-> content]
FixedText(msg) == [tag |-> "fixed", msg |-> msg]

\* What a handler returns.
Result(body) == [kind |-> "result", body |-> body]

\* throw new McpError(ErrorCode.InvalidRequest, `Unknown ...: ${id}`)
McpError(code, what, id) == [kind |-> "error", code |-> code, what |-> what, id |-> id]

\* Destructuring the arguments of a request that carries none throws a
\* TypeError out of the handler.
TypeErrorThrown(name) ==
    [kind |-> "error", code |-> "InternalError", what |-> "TypeError", id |-> name]

\* What one invocation did to the collaborators: the case body it entered, the
\* files it asked fs.readFile for, the directories it asked fs.access for,
\* the subprocesses it spawned, the failures the collaborators answered with
\* and the contents fs.readFile returned.
NoEffects ==
    [handler |-> "none", reads |-> <<>>, accesses |-> <<>>, spawns |-> 0,
     failures |-> <<>>, contents |-> <<>>]

\* -------------------------------------------------------- resource reads

RequirementsPath == <<"/Users/jonafta/Dev/open-nic-shell-ji-mb/requirements.md">>
SubmissionPath ==
    <<"/Users/jonafta/Dev/open-nic-shell-ji-mb/opennic_packet_filter_submission.md">>
RegisterMapPath ==
    <<"/Users/jonafta/Dev/open-nic-shell-ji-mb/plugin/p2p/box_250mhz/csr/doc/register_map.md">>

\* The case label the switch over uri selects (strict equality), "default"
\* when none does.
ResourceCase(uri) ==
    IF uri \in {"opennic://filter-requirements", "opennic://filter-implementation",
                "opennic://register-map", "opennic://simulation-guide",
                "opennic://debug-workflow"}
    THEN uri ELSE "default"

\* The resources whose case reads a file, with the path and the fallback text.
FileBackedResources ==
    {"opennic://filter-requirements", "opennic://filter-implementation",
     "opennic://register-map"}

ResourcePath(uri) ==
    CASE uri = "opennic://filter-requirements" -> RequirementsPath
      [] uri = "opennic://filter-implementation" -> SubmissionPath
      [] uri = "opennic://register-map" -> RegisterMapPath

ResourceFallback(uri) ==
    CASE uri = "opennic://filter-requirements" ->
            "Requirements document not found. Please ensure the OpenNIC project is available."
      [] uri = "opennic://filter-implementation" ->
            "Implementation document not found. Please ensure the submission document exists."
      [] uri = "opennic://register-map" ->
            "Register map documentation not found."

\* The documents the server synthesizes.
SynthesizedDocument(uri) ==
    CASE uri = "opennic://simulation-guide" ->
            "# OpenNIC Filter Simulation Guide (Verilator Only)"
      [] uri = "opennic://debug-workflow" ->
            "# OpenNIC Filter Hardware Debug Workflow"

\* ResourceReadResponse without the catch block: the read error leaves the handler.
ResourceReadResponseRethrowing(uri, outcome) ==
    LET got == readFileContent(ResourcePath(uri), outcome)
    IN  IF got.ok
        THEN Result([contents |-> <<TextBlock(FileText(got.value))>>])
        ELSE [kind |-> "error", code |-> "InternalError", what |-> "Error", id |-> uri]

\* The try / catch around readFileContent in a file-backed case.
ResourceReadResponse(uri, outcome) ==
    LET got == readFileContent(ResourcePath(uri), outcome)
    IN  IF got.ok
        THEN Result([contents |-> <<TextBlock(FileText(got.value))>>])
        ELSE Result([contents |-> <<TextBlock(FixedText(ResourceFallback(uri)))>>])


\* --------------------------------------------------------------- analyzers

\* A file's text is the sequence of its lexemes: words (runs of \w characters),
\* bit ranges, operators, and the white space between them, one lexeme per
\* white-space character.
WordLexemes ==
    {"import", "pkg", "logic", "wire", "reg", "input", "output", "inout",
     "data", "valid", "clk", "SIM", "verilator", "icarus", "include", "clean",
     "test", "COCOTB_DEBUG", "VERILOG_SOURCES", "not_specified"}
RangeLexemes == {"[7:0]"}
SpaceLexemes == {" ", "\n", "\t"}
OtherLexemes == {"::*", "=", ":=", "?=", ":", ";", "rules.mk"}

IsWord(l) == l \in WordLexemes
IsRange(l) == l \in RangeLexemes
IsSpace(l) == l \in SpaceLexemes

\* The lexeme at position i, "" past the end of the text.
At(t, i) == IF i \in 1..Len(t) THEN t[i] ELSE ""

RECURSIVE SkipSpaces(_, _)
\* \s* from position i: the first position that holds no white space.
SkipSpaces(t, i) == IF IsSpace(At(t, i)) THEN SkipSpaces(t, i + 1) ELSE i

RECURSIVE SkipNonSpaces(_, _)
\* [^\s]* from position i: the first position that holds white space, or the end.
SkipNonSpaces(t, i) ==
    IF i > Len(t) \/ IsSpace(t[i]) THEN i ELSE SkipNonSpaces(t, i + 1)

RECURSIVE LastSpace(_, _, _)
\* The last position in a..b that holds white space, a - 1 when none does.
LastSpace(t, a, b) ==
    IF b < a THEN a - 1 ELSE IF IsSpace(t[b]) THEN b ELSE LastSpace(t, a, b - 1)

\* match.split(/\s+/).pop() of the match t[a..b]: what follows its last white space.
LastField(t, a, b) == SubSeq(t, LastSpace(t, a, b) + 1, b)

\* /import\s+(\w+)::\*/ at position i: the end of the match, 0 when none.
ImportMatchEnd(t, i) ==
    LET j == SkipSpaces(t, i + 1)
    IN  IF At(t, i) = "import" /\ IsSpace(At(t, i + 1)) /\ IsWord(At(t, j))
           /\ At(t, j + 1) = "::*"
        THEN j + 1 ELSE 0

\* (?:\[[^\]]+\])?\s*(\w+) at position j: the end of the match, 0 when none.
RangeAndNameEnd(t, j) ==
    LET k == SkipSpaces(t, j + 1)
    IN  IF IsRange(At(t, j)) /\ IsWord(At(t, k)) THEN k
        ELSE IF IsWord(At(t, j)) THEN j
        ELSE 0

\* /(?:logic|wire|reg)\s+(?:\[[^\]]+\])?\s*(\w+)/ at position i.
SignalMatchEnd(t, i) ==
    IF At(t, i) \in {"logic", "wire", "reg"} /\ IsSpace(At(t, i + 1))
    THEN RangeAndNameEnd(t, SkipSpaces(t, i + 1))
    ELSE 0

\* /(?:input|output|inout)\s+(?:logic|wire|reg)?\s*(?:\[[^\]]+\])?\s*(\w+)/ at
\* position i: with the type keyword when what follows it matches, else without.
PortMatchEnd(t, i) ==
    LET j == SkipSpaces(t, i + 1)
        withType == IF At(t, j) \in {"logic", "wire", "reg"}
                    THEN RangeAndNameEnd(t, SkipSpaces(t, j + 1))
                    ELSE 0
    IN  IF At(t, i) \in {"input", "output", "inout"} /\ IsSpace(At(t, i + 1))
        THEN IF withType # 0 THEN withType ELSE RangeAndNameEnd(t, j)
        ELSE 0

RECURSIVE ImportNames(_, _)
\* content.match(/import\s+(\w+)::\*/g), each match mapped to its capture.
ImportNames(t, i) ==
    IF i > Len(t) THEN <<>>
    ELSE IF ImportMatchEnd(t, i) # 0
         THEN <<t[ImportMatchEnd(t, i) - 1]>> \o ImportNames(t, ImportMatchEnd(t, i) + 1)
    ELSE ImportNames(t, i + 1)

RECURSIVE SignalNames(_, _)
\* The matches of the signal pattern, each mapped to its last field.
SignalNames(t, i) ==
    IF i > Len(t) THEN <<>>
    ELSE IF SignalMatchEnd(t, i) # 0
         THEN <<LastField(t, i, SignalMatchEnd(t, i))>>
                  \o SignalNames(t, SignalMatchEnd(t, i) + 1)
    ELSE SignalNames(t, i + 1)

RECURSIVE PortNames(_, _)
\* The matches of the port pattern, each mapped to its last field.
PortNames(t, i) ==
    IF i > Len(t) THEN <<>>
    ELSE IF PortMatchEnd(t, i) # 0
         THEN <<LastField(t, i, PortMatchEnd(t, i))>>
                  \o PortNames(t, PortMatchEnd(t, i) + 1)
    ELSE PortNames(t, i + 1)

\* The body of analyzeVerilogFile once the file is read.
ExtractVerilog(content) ==
    [syntax_issues |-> <<>>,
     package_dependencies |-> ImportNames(content, 1),
     signal_definitions |-> SignalNames(content, 1),
     interface_ports |-> PortNames(content, 1)]

\* analyzeVerilogFile with facts that depend on the name of the file as well:
\* no ports for a file named as a testbench.
analyzeVerilogFileByName(filePath, outcome) ==
    LET got == readFileContent(filePath, outcome)
    IN  IF got.ok
        THEN [ok |-> TRUE,
              value |-> IF filePath = <<"tb.sv">>
                        THEN [ExtractVerilog(got.value) EXCEPT !.interface_ports = <<>>]
                        ELSE ExtractVerilog(got.value)]
        ELSE [ok |-> FALSE,
              error |-> [kind |-> "VerilogAnalysisFailed", inner |-> got.error]]

\* analyzeVerilogFile without the "|| []" after the first match: a text that
\* imports nothing makes the map over null throw.
analyzeVerilogFileNullMatch(filePath, outcome) ==
    LET got == readFileContent(filePath, outcome)
    IN  IF got.ok /\ ImportNames(got.value, 1) # <<>>
        THEN [ok |-> TRUE, value |-> ExtractVerilog(got.value)]
        ELSE [ok |-> FALSE,
              error |-> [kind |-> "VerilogAnalysisFailed",
                         inner |-> IF got.ok THEN ReadError.error ELSE got.error]]

\* analyzeVerilogFile: the analysis, or the read error rethrown as
\* new Error(`Verilog analysis failed: ${error}`).
analyzeVerilogFile(filePath, outcome) ==
    LET got == readFileContent(filePath, outcome)
    IN  IF got.ok
        THEN [ok |-> TRUE, value |-> ExtractVerilog(got.value)]
        ELSE [ok |-> FALSE,
              error |-> [kind |-> "VerilogAnalysisFailed", inner |-> got.error]]


\* /SIM\s*[:?]?=\s*(\w+)/ at position i: the position of the capture, 0 when
\* there is no match.
SimMatchAt(t, i) ==
    LET j == SkipSpaces(t, i + 1)
        k == SkipSpaces(t, j + 1)
    IN  IF At(t, i) = "SIM" /\ At(t, j) \in {"=", ":=", "?="} /\ IsWord(At(t, k))
        THEN k ELSE 0

RECURSIVE FirstSim(_, _)
\* simMatch?.[1] || 'not_specified' for the first match from position i on.
FirstSim(t, i) ==
    IF i > Len(t) THEN "not_specified"
    ELSE IF SimMatchAt(t, i) # 0 THEN t[SimMatchAt(t, i)]
    ELSE FirstSim(t, i + 1)

\* Whether position i starts a line (the ^ of a multiline pattern).
LineStart(t, i) == i = 1 \/ At(t, i - 1) = "\n"

RECURSIVE Targets(_, _)
\* content.match(/^(\w+):/gm), each match with its ':' removed.
Targets(t, i) ==
    IF i > Len(t) THEN <<>>
    ELSE IF LineStart(t, i) /\ IsWord(t[i]) /\ At(t, i + 1) \in {":", ":=", "::*"}
         THEN <<t[i]>> \o Targets(t, i + 1)
    ELSE Targets(t, i + 1)

\* /include\s+([^\s]+)/ at position i: the end of the match, 0 when none.
IncludeMatchEnd(t, i) ==
    LET j == SkipSpaces(t, i + 1)
    IN  IF At(t, i) = "include" /\ IsSpace(At(t, i + 1)) /\ j <= Len(t)
        THEN SkipNonSpaces(t, j) - 1 ELSE 0

\* match.replace('include ', ''): the match without its first "include "
\* (the word and one space character); the whole match when other white
\* space follows the word.
StripInclude(t, a, b) ==
    IF t[a + 1] = " " THEN SubSeq(t, a + 2, b) ELSE SubSeq(t, a, b)

RECURSIVE Includes(_, _)
\* content.match(/include\s+([^\s]+)/g), each match stripped.
Includes(t, i) ==
    IF i > Len(t) THEN <<>>
    ELSE IF IncludeMatchEnd(t, i) # 0
         THEN <<StripInclude(t, i, IncludeMatchEnd(t, i))>>
                  \o Includes(t, IncludeMatchEnd(t, i) + 1)
    ELSE Includes(t, i + 1)

\* content.includes('COCOTB_') and content.includes('VERILOG_SOURCES').
HasCocotbMarker(t) == \E i \in DOMAIN t : t[i] \in {"COCOTB_DEBUG"}
HasSourcesMarker(t) == \E i \in DOMAIN t : t[i] \in {"VERILOG_SOURCES"}

\* MakefileIssues without the check of VERILOG_SOURCES.
MakefileIssuesWithoutSources(simulator, t) ==
    (IF simulator = "not_specified"
     THEN <<"SIM variable not explicitly set - may cause simulator selection issues">>
     ELSE <<>>)
    \o (IF ~HasCocotbMarker(t)
        THEN <<"Missing COCOTB configuration variables">> ELSE <<>>)

\* The three policy checks, in the order the code pushes their diagnostics.
MakefileIssues(simulator, t) ==
    (IF simulator = "not_specified"
     THEN <<"SIM variable not explicitly set - may cause simulator selection issues">>
     ELSE <<>>)
    \o (IF ~HasCocotbMarker(t)
        THEN <<"Missing COCOTB configuration variables">> ELSE <<>>)
    \o (IF ~HasSourcesMarker(t)
        THEN <<"VERILOG_SOURCES not defined - required for compilation">> ELSE <<>>)

\* The body of analyzeMakefile once the file is read.
ExtractMakefile(content) ==
    [simulator_config |-> FirstSim(content, 1),
     test_targets |-> Targets(content, 1),
     dependencies |-> Includes(content, 1),
     issues |-> MakefileIssues(FirstSim(content, 1), content)]

\* analyzeMakefile: the analysis, or the read error rethrown as
\* new Error(`Makefile analysis failed: ${error}`).
analyzeMakefile(makefilePath, outcome) ==
    LET got == readFileContent(makefilePath, outcome)
    IN  IF got.ok
        THEN [ok |-> TRUE, value |-> ExtractMakefile(got.value)]
        ELSE [ok |-> FALSE,
              error |-> [kind |-> "MakefileAnalysisFailed", inner |-> got.error]]

\* The texts a file of the model can hold.
EmptyText == <<>>
VerilogText ==
    <<"import", " ", "pkg", "::*", "\n",
      "input", " ", "logic", " ", "[7:0]", "data", "\n",
      "logic", " ", "valid">>
MakefileText == <<"SIM", "=", "verilator", "\n", "include", " ", "rules.mk">>

FileContents == {EmptyText, VerilogText, MakefileText}


\* ------------------------------------------------------------ tool bodies

\* ToolCase with the name lower-cased before the switch.
ToolCaseIgnoringCase(name) ==
    LET lower == IF name = "RUN-FILTER-SIMULATION" THEN "run-filter-simulation" ELSE name
    IN  IF lower \in {"run-filter-simulation", "analyze-verilog-syntax",
                      "suggest-makefile-fixes", "check-interface-compatibility",
                      "cross-reference-signals", "check-requirements-compliance"}
        THEN lower ELSE "default"

\* ToolCase of a switch that has no case for a tool the list declares.
ToolCaseWithoutCrossReference(name) ==
    IF name \in {"run-filter-simulation", "analyze-verilog-syntax",
                 "suggest-makefile-fixes", "check-interface-compatibility",
                 "check-requirements-compliance"}
    THEN name ELSE "default"

\* The case label the switch over the tool name selects (strict equality),
\* "default" when none does.
ToolCase(name) ==
    IF name \in {"run-filter-simulation", "analyze-verilog-syntax",
                 "suggest-makefile-fixes", "check-interface-compatibility",
                 "cross-reference-signals", "check-requirements-compliance"}
    THEN name ELSE "default"

\* const { k = dflt } = args: the argument, or the default when it is left out.
Arg(args, k, dflt) == IF k \in DOMAIN args THEN args[k] ELSE dflt

\* A path argument that was left out.
UndefinedPath == <<Undefined>>

TestDir == <<"/Users/jonafta/Dev/open-nic-shell-ji-mb/tb/tests/filter_rx_pipeline">>

\* The switch over test_type: the TESTCASE assignment, none for "all" and for
\* a value no case names.
TestcaseWords(test_type) ==
    CASE test_type = "basic" -> <<"TESTCASE=test_filter_basic">>
      [] test_type = "advanced" -> <<"TESTCASE=test_filter_advanced">>
      [] test_type = "csr" -> <<"TESTCASE=test_csr_interface">>
      [] test_type = "performance" -> <<"TESTCASE=test_performance">>
      [] OTHER -> <<>>

\* EnvString of a handler that sets SIM only when waves are not asked for.
EnvStringSimUnlessWaves(test_type, debug, waves) ==
    (IF waves THEN <<>> ELSE <<"SIM=verilator">>)
    \o (IF debug THEN <<"COCOTB_DEBUG=1">> ELSE <<>>)
    \o (IF waves THEN <<"WAVES=1", "EXTRA_ARGS=--trace", "--trace-structs">> ELSE <<>>)
    \o TestcaseWords(test_type)

\* envString: the entries of env as KEY=value joined by ' ', in insertion order.
EnvString(test_type, debug, waves) ==
    <<"SIM=verilator">>
    \o (IF debug THEN <<"COCOTB_DEBUG=1">> ELSE <<>>)
    \o (IF waves THEN <<"WAVES=1", "EXTRA_ARGS=--trace", "--trace-structs">> ELSE <<>>)
    \o TestcaseWords(test_type)

\* fullCommand = `${envString} ${makeCommand}`
FullCommand(test_type, debug, waves) ==
    EnvString(test_type, debug, waves) \o <<"make", "test">>

\* The arguments of executeCommand("bash", ["-c", fullCommand], testDir).
SimulationArgs(fullCommand) == << <<"-c">>, fullCommand >>

\* The text of the response of a simulation that ran to exit status 0.
SimulationCompletedText(fullCommand, result) ==
    [tag |-> "SimulationCompleted", command |-> fullCommand,
     stdout |-> result.stdout, stderr |-> result.stderr]

\* The text of the catch block of run-filter-simulation.
SimulationFailedText(error) == [tag |-> "SimulationFailed", error |-> error]

\* SimulationResponse without the catch block: the rejection leaves the handler.
SimulationResponseRethrowing(fullCommand, settled) ==
    IF settled.state = "resolved"
    THEN Result([content |->
                    <<[type |-> "text",
                       text |-> SimulationCompletedText(fullCommand, settled.value)]>>])
    ELSE [kind |-> "error", code |-> "InternalError", what |-> "Error",
          id |-> "run-filter-simulation"]

\* The try / catch of run-filter-simulation around the awaited executeCommand:
\* the response for the settled promise.
SimulationResponse(fullCommand, settled) ==
    IF settled.state = "resolved"
    THEN Result([content |->
                    <<[type |-> "text",
                       text |-> SimulationCompletedText(fullCommand, settled.value)]>>])
    ELSE Result([content |->
                    <<[type |-> "text", text |-> SimulationFailedText(settled.reason)]>>])

\* What fs.access rejects with.
AccessError(path) == [kind |-> "AccessFailed", path |-> path, errno |-> "ENOENT"]

\* The arguments of executeCommand("verilator", ["--lint-only", "-Wall", file_path]).
LintArgs(file_path) == << <<"--lint-only">>, <<"-Wall">>, file_path >>

\* How many signal definitions the report lists.
SignalListLimit == 10

Min(a, b) == IF a < b THEN a ELSE b
Max(a, b) == IF a > b THEN a ELSE b

\* The report of analyze-verilog-syntax up to the lint section.
VerilogReport(file_path, check_packages, analysis) ==
    [tag |-> "VerilogReport",
     file |-> file_path,
     packagesShown |-> check_packages,
     packages |-> IF check_packages THEN analysis.package_dependencies ELSE <<>>,
     signals |-> SubSeq(analysis.signal_definitions, 1,
                        Min(SignalListLimit, Len(analysis.signal_definitions))),
     moreSignals |-> Max(Len(analysis.signal_definitions) - SignalListLimit, 0),
     ports |-> analysis.interface_ports]

VerilogFailedText(error) == [tag |-> "VerilogFailed", error |-> error]

\* WithLint with the error of the lint run thrown to the outer catch block.
WithLintRethrown(report, settled) ==
    IF settled.state = "rejected"
    THEN VerilogFailedText(settled.reason)
    ELSE [tag |-> "VerilogReportWithLint", report |-> report,
          lintClean |-> TRUE, lintIssues |-> <<>>]

\* The report with its lint section: clean, or the error of the lint run.
WithLint(report, settled) ==
    [tag |-> "VerilogReportWithLint", report |-> report,
     lintClean |-> settled.state = "resolved",
     lintIssues |-> IF settled.state = "rejected" THEN <<settled.reason>> ELSE <<>>]

\* The three recommended fixes: the title of each and the makefile text it
\* tells the user to add.
ForceVerilatorFix ==
    [title |-> "Force Verilator Usage",
     adds |-> <<"SIM", " ", "?=", " ", "verilator">>]

CleanTargetFix ==
    [title |-> "Add Clean Target",
     adds |-> <<"clean", ":", "\n", " ", "rm", " ", "-rf", " ", "sim_build/", " ",
                "__pycache__/", " ", "*.vcd">>]

EnhancedConfigurationFix ==
    [title |-> "Enhanced Verilator Configuration",
     adds |-> <<"EXTRA_ARGS", " ", "+=", " ", "--trace", " ", "--trace-structs", "\n",
                "EXTRA_ARGS", " ", "+=", " ", "--x-assign", " ", "unique", " ",
                "--x-initial", " ", "unique", "\n",
                "COMPILE_ARGS", " ", "+=", " ", "-Wall", " ", "-Wno-fatal">>]

\* The report of suggest-makefile-fixes.
MakefileReport(makefile_path, analysis) ==
    [tag |-> "MakefileReport",
     file |-> makefile_path,
     simulator |-> analysis.simulator_config,
     targets |-> analysis.test_targets,
     dependencies |-> analysis.dependencies,
     issues |-> analysis.issues,
     fixes |-> (IF analysis.simulator_config # "verilator"
                THEN <<ForceVerilatorFix>> ELSE <<>>)
               \o (IF \A i \in DOMAIN analysis.test_targets :
                          analysis.test_targets[i] # "clean"
                   THEN <<CleanTargetFix>> ELSE <<>>)
               \o <<EnhancedConfigurationFix>>]

MakefileFailedText(error) == [tag |-> "MakefileFailed", error |-> error]

\* array.filter(keep), for keep a set of values.
RECURSIVE FilterSeq(_, _, _)
FilterSeq(seq, set, keepMembers) ==
    IF seq = <<>> THEN <<>>
    ELSE (IF (Head(seq) \in set) = keepMembers THEN <<Head(seq)>> ELSE <<>>)
         \o FilterSeq(Tail(seq), set, keepMembers)

\* InterfaceReport with the score taken over the ports of the RTL.
InterfaceReportOverRtl(testbench_file, rtl_file, tb, rtl) ==
    LET common == FilterSeq(tb.interface_ports, Range(rtl.interface_ports), TRUE)
        tbOnly == FilterSeq(tb.interface_ports, Range(rtl.interface_ports), FALSE)
        rtlOnly == FilterSeq(rtl.interface_ports, Range(tb.interface_ports), FALSE)
        den == Max(Len(rtl.interface_ports), 1)
    IN  [tag |-> "InterfaceReport",
         testbench |-> testbench_file, rtl |-> rtl_file,
         matching |-> common, testbenchOnly |-> tbOnly, rtlOnly |-> rtlOnly,
         scoreTenths |-> (2 * Len(common) * 1000 + den) \div (2 * den),
         lowScore |-> Len(common) * 100 < 80 * den]

\* The report of check-interface-compatibility; the score is held in tenths
\* of a percent, as toFixed(1) prints it.
InterfaceReport(testbench_file, rtl_file, tb, rtl) ==
    LET common == FilterSeq(tb.interface_ports, Range(rtl.interface_ports), TRUE)
        tbOnly == FilterSeq(tb.interface_ports, Range(rtl.interface_ports), FALSE)
        rtlOnly == FilterSeq(rtl.interface_ports, Range(tb.interface_ports), FALSE)
        den == Max(Len(tb.interface_ports), 1)
    IN  [tag |-> "InterfaceReport",
         testbench |-> testbench_file, rtl |-> rtl_file,
         matching |-> common, testbenchOnly |-> tbOnly, rtlOnly |-> rtlOnly,
         scoreTenths |-> (2 * Len(common) * 1000 + den) \div (2 * den),
         lowScore |-> Len(common) * 100 < 80 * den]

InterfaceFailedText(error) == [tag |-> "InterfaceFailed", error |-> error]

\* signalMap of cross-reference-signals: the number of signals of each level.
SignalMapLevels == <<"top", "filter", "parser">>
SignalMapSize(level) ==
    CASE level = "top" -> 5 [] level = "filter" -> 5 [] level = "parser" -> 6

\* The report of cross-reference-signals: every level for "all", else the one
\* level, whose list reads "undefined" when signalMap has no such key.
SignalReport(hierarchy_level) ==
    [tag |-> "SignalReport",
     level |-> hierarchy_level,
     sections |->
        IF hierarchy_level = "all"
        THEN [i \in DOMAIN SignalMapLevels |->
                 [title |-> SignalMapLevels[i], known |-> TRUE,
                  size |-> SignalMapSize(SignalMapLevels[i])]]
        ELSE << [title |-> "Signal Definitions",
                 known |-> hierarchy_level \in Range(SignalMapLevels),
                 size |-> IF hierarchy_level \in Range(SignalMapLevels)
                          THEN SignalMapSize(hierarchy_level) ELSE 0] >>]

\* One entry of checksToRun; the status is a fixed text that opens with the
\* check mark.
RequirementCheck(name, check, status) ==
    [name |-> name, check |-> check, status |-> [positive |-> TRUE, text |-> status]]

FunctionalChecks ==
    <<RequirementCheck("IPv4/IPv6 Filtering", "Verify packet parsing and filtering logic",
          "Implemented in filter_rx_pipeline.sv with Verilator validation"),
      RequirementCheck("Port-based Filtering", "Verify TCP/UDP port filtering",
          "Implemented with wildcard support and syntax validation"),
      RequirementCheck("Statistics Counters", "Verify hit/miss/total counters",
          "Implemented in CSR registers with interface compatibility check")>>

InterfaceChecks ==
    <<RequirementCheck("AXI-Stream Interface", "Verify 512-bit data width compliance",
          "Maintains existing interface with cross-reference validation"),
      RequirementCheck("AXI-Lite CSR Interface", "Verify register map at 0xB000",
          "Implemented with proper addressing and Makefile integration")>>

PerformanceChecks ==
    <<RequirementCheck("Throughput Maintenance", "Verify no performance degradation",
          "Single-cycle filtering decision with Verilator timing analysis"),
      RequirementCheck("Clock Domain", "Verify 250MHz operation",
          "Integrated in 250MHz user box with dependency validation")>>

\* ChecksToRun with the performance checks pushed first.
ChecksToRunPerformanceFirst(requirement_type) ==
    (IF requirement_type \in {"performance", "all"} THEN PerformanceChecks ELSE <<>>)
    \o (IF requirement_type \in {"functional", "all"} THEN FunctionalChecks ELSE <<>>)
    \o (IF requirement_type \in {"interface", "all"} THEN InterfaceChecks ELSE <<>>)

\* checksToRun of check-requirements-compliance.
ChecksToRun(requirement_type) ==
    (IF requirement_type \in {"functional", "all"} THEN FunctionalChecks ELSE <<>>)
    \o (IF requirement_type \in {"interface", "all"} THEN InterfaceChecks ELSE <<>>)
    \o (IF requirement_type \in {"performance", "all"} THEN PerformanceChecks ELSE <<>>)

ComplianceReport(requirement_type) ==
    [tag |-> "ComplianceReport", checks |-> ChecksToRun(requirement_type),
     overall |-> "All specified requirements met"]

\* The response of a tool: one text block.
ToolResult(text) == Result([content |-> <<TextBlock(text)>>])


\* ---------------------------------------------------------- prompt bodies

\* Whether args?.k is truthy: present and not the empty string.
Truthy(hasArgs, args, k) == hasArgs /\ k \in DOMAIN args /\ args[k] # ""

\* args?.k || dflt
OrDefault(hasArgs, args, k, dflt) == IF Truthy(hasArgs, args, k) THEN args[k] ELSE dflt

\* String.prototype.toLowerCase on the strings the model's requests hold.
ToLowerCase(str) ==
    CASE str = "IPv4" -> "ipv4"
      [] str = "IPv6" -> "ipv6"
      [] OTHER -> str

\* TestScenarioPrompt with "IPv6" for a packet type that is left out.
TestScenarioPromptIPv6(hasArgs, args) ==
    LET scenarioType == OrDefault(hasArgs, args, "scenario_type", "basic")
        packetType == OrDefault(hasArgs, args, "packet_type", "IPv6")
        includeDebug == Truthy(hasArgs, args, "include_debug")
    IN  Result([description |-> [tag |-> "Enhanced test scenario",
                                 scenarioType |-> scenarioType,
                                 packetType |-> packetType],
                messages |-> << [role |-> "user",
                                 content |-> TextBlock(
                                     [tag |-> "TestScenario",
                                      scenarioType |-> scenarioType,
                                      packetType |-> packetType,
                                      debugSteps |-> includeDebug,
                                      testName |-> <<ToLowerCase(scenarioType),
                                                     ToLowerCase(packetType)>>])] >>])

\* The response of the create-test-scenario branch.
TestScenarioPrompt(hasArgs, args) ==
    LET scenarioType == OrDefault(hasArgs, args, "scenario_type", "basic")
        packetType == OrDefault(hasArgs, args, "packet_type", "IPv4")
        includeDebug == Truthy(hasArgs, args, "include_debug")
    IN  Result([description |-> [tag |-> "Enhanced test scenario",
                                 scenarioType |-> scenarioType,
                                 packetType |-> packetType],
                messages |-> << [role |-> "user",
                                 content |-> TextBlock(
                                     [tag |-> "TestScenario",
                                      scenarioType |-> scenarioType,
                                      packetType |-> packetType,
                                      debugSteps |-> includeDebug,
                                      testName |-> <<ToLowerCase(scenarioType),
                                                     ToLowerCase(packetType)>>])] >>])

\* The issue types the workflow template has a section for.
WorkflowSections == {"compilation", "simulation", "functional", "timing"}

\* The response of the debug-workflow-guide branch.
DebugWorkflowPrompt(hasArgs, args) ==
    LET issueType == OrDefault(hasArgs, args, "issue_type", "compilation")
        symptoms == OrDefault(hasArgs, args, "symptoms", "Not specified")
    IN  Result([description |-> [tag |-> "Debug workflow guide",
                                 issueType |-> issueType],
                messages |-> << [role |-> "user",
                                 content |-> TextBlock(
                                     [tag |-> "DebugWorkflow",
                                      issueType |-> issueType,
                                      symptoms |-> symptoms,
                                      sections |-> {issueType} \cap WorkflowSections])] >>])

\* The branch the if chain over the prompt name takes (strict equality),
\* "default" when it falls through to the throw.
PromptCase(name) ==
    IF name \in {"create-test-scenario", "debug-workflow-guide"} THEN name ELSE "default"

\* ------------------------------------------------------------------ state

VARIABLES
    pc,     \* per slot: where the invocation stands
    req,    \* per slot: the request being handled
    loc,    \* per slot: the handler's local variables that live across an await
    run,    \* per slot: the executeCommand call of the invocation
    child,  \* per slot: the child process of that call, as the system sees it
    resp,   \* per slot: the response, once the handler returned or threw
    fx      \* per slot: what the invocation did to the collaborators

vars == <<pc, req, loc, run, child, resp, fx>>

Init ==
    /\ pc = [s \in Slots |-> "idle"]
    /\ req = [s \in Slots |-> NoReq]
    /\ loc = [s \in Slots |-> NoLocals]
    /\ run = [s \in Slots |-> NoRun]
    /\ child = [s \in Slots |-> NoChild]
    /\ resp = [s \in Slots |-> NoResp]
    /\ fx = [s \in Slots |-> NoEffects]

\* A request: the method, the capability id (none for a list), and the
\* arguments, which a request may leave out altogether.
Request(method, id, hasArgs, args) ==
    [method |-> method, id |-> id, hasArgs |-> hasArgs, args |-> args]

\* The handler of slot s returned or threw: the response is ready.
Finish(s, response) ==
    /\ pc' = [pc EXCEPT ![s] = "done"]
    /\ resp' = [resp EXCEPT ![s] = response]
    /\ loc' = [loc EXCEPT ![s] = NoLocals]

\* The handler of slot s awaits fs.readFile(path) through readFileContent.
AwaitRead(s, path, locals, effects) ==
    /\ pc' = [pc EXCEPT ![s] = "await_read"]
    /\ loc' = [loc EXCEPT ![s] = locals @@ [path |-> path]]
    /\ fx' = [fx EXCEPT ![s] = [effects EXCEPT !.reads = Append(@, path)]]
    /\ resp' = resp

\* AwaitCommand with an output buffer kept at module level: a run starts with
\* what a run still in flight has gathered.
AwaitCommandInheriting(s, command, args, cwd, locals, effects) ==
    LET inFlight == {t \in DOMAIN run \ {s} :
                        run[t].state = "spawned" /\ run[t].promise.state = "pending"}
        kept == IF inFlight = {} THEN <<>> ELSE run[CHOOSE t \in inFlight : TRUE].stdout
    IN  /\ pc' = [pc EXCEPT ![s] = "await_command"]
        /\ loc' = [loc EXCEPT ![s] = locals]
        /\ run' = [run EXCEPT ![s] = [Spawn(command, args, cwd) EXCEPT !.stdout = kept]]
        /\ \E spawnOk \in BOOLEAN : child' = [child EXCEPT ![s] = NewChild(spawnOk)]
        /\ fx' = [fx EXCEPT ![s] = [effects EXCEPT !.spawns = @ + 1]]
        /\ resp' = resp

\* The handler of slot s calls executeCommand and awaits its promise; the
\* system starts the shell, or fails to.
AwaitCommand(s, command, args, cwd, locals, effects) ==
    /\ pc' = [pc EXCEPT ![s] = "await_command"]
    /\ loc' = [loc EXCEPT ![s] = locals]
    /\ run' = [run EXCEPT ![s] = Spawn(command, args, cwd)]
    /\ \E spawnOk \in BOOLEAN : child' = [child EXCEPT ![s] = NewChild(spawnOk)]
    /\ fx' = [fx EXCEPT ![s] = [effects EXCEPT !.spawns = @ + 1]]
    /\ resp' = resp

\* The effects of an invocation that entered the body of a case.
Entered(case) == [NoEffects EXCEPT !.handler = case]

\* effects with one more failure of a collaborator.
Failed(effects, what) == [effects EXCEPT !.failures = Append(@, what)]

\* effects with the outcome of one more read.
AfterRead(effects, outcome) ==
    IF outcome.ok THEN [effects EXCEPT !.contents = Append(@, outcome.content)]
    ELSE Failed(effects, "read")

\* ------------------------------------------------------------ list handlers

\* ListResources that leaves the file-backed resources out while a read of
\* one of them is failing.
ListResourcesFiltered(s) ==
    /\ pc[s] = "idle"
    /\ req' = [req EXCEPT ![s] = Request("resources/list", Undefined, FALSE, <<>>)]
    /\ fx' = [fx EXCEPT ![s] = NoEffects]
    /\ Finish(s, Result([resources |->
                           IF \E t \in DOMAIN fx : fx[t].failures # <<>>
                           THEN SubSeq(ResourceDescriptors, 4, 5)
                           ELSE ResourceDescriptors]))
    /\ UNCHANGED <<run, child>>

ListResources(s) ==
    /\ pc[s] = "idle"
    /\ req' = [req EXCEPT ![s] = Request("resources/list", Undefined, FALSE, <<>>)]
    /\ fx' = [fx EXCEPT ![s] = NoEffects]
    /\ Finish(s, Result([resources |-> ResourceDescriptors]))
    /\ UNCHANGED <<run, child>>

\* ListTools answering only once no subprocess is running.
ListToolsAfterSubprocesses(s) ==
    /\ pc[s] = "idle"
    /\ \A t \in DOMAIN child : child[t].state = "child" => child[t].closed
    /\ req' = [req EXCEPT ![s] = Request("tools/list", Undefined, FALSE, <<>>)]
    /\ fx' = [fx EXCEPT ![s] = NoEffects]
    /\ Finish(s, Result([tools |-> ToolDescriptors]))
    /\ UNCHANGED <<run, child>>

ListTools(s) ==
    /\ pc[s] = "idle"
    /\ req' = [req EXCEPT ![s] = Request("tools/list", Undefined, FALSE, <<>>)]
    /\ fx' = [fx EXCEPT ![s] = NoEffects]
    /\ Finish(s, Result([tools |-> ToolDescriptors]))
    /\ UNCHANGED <<run, child>>

ListPrompts(s) ==
    /\ pc[s] = "idle"
    /\ req' = [req EXCEPT ![s] = Request("prompts/list", Undefined, FALSE, <<>>)]
    /\ fx' = [fx EXCEPT ![s] = NoEffects]
    /\ Finish(s, Result([prompts |-> PromptDescriptors]))
    /\ UNCHANGED <<run, child>>

\* --------------------------------------------------------- resource handler

\* The ReadResourceRequestSchema handler up to its first await.
ReadResource(s, uri) ==
    /\ pc[s] = "idle"
    /\ req' = [req EXCEPT ![s] = Request("resources/read", uri, FALSE, <<>>)]
    /\ UNCHANGED <<run, child>>
    /\ IF ResourceCase(uri) = "default"
       THEN /\ fx' = [fx EXCEPT ![s] = NoEffects]
            /\ Finish(s, McpError("InvalidRequest", "Unknown resource", uri))
       ELSE IF ResourceCase(uri) \in FileBackedResources
       THEN AwaitRead(s, ResourcePath(uri), [stage |-> "resource"],
                      Entered(ResourceCase(uri)))
       ELSE /\ fx' = [fx EXCEPT ![s] = Entered(ResourceCase(uri))]
            /\ Finish(s, Result([contents |->
                                   <<TextBlock(FixedText(SynthesizedDocument(uri)))>>]))

\* ----------------------------------------------------------- prompt handler

\* The GetPromptRequestSchema handler.
GetPrompt(s, name, hasArgs, args) ==
    /\ pc[s] = "idle"
    /\ req' = [req EXCEPT ![s] = Request("prompts/get", name, hasArgs, args)]
    /\ UNCHANGED <<run, child>>
    /\ fx' = [fx EXCEPT ![s] = IF PromptCase(name) = "default" THEN NoEffects
                                ELSE Entered(PromptCase(name))]
    /\ Finish(s, CASE PromptCase(name) = "create-test-scenario" ->
                        TestScenarioPrompt(hasArgs, args)
                   [] PromptCase(name) = "debug-workflow-guide" ->
                        DebugWorkflowPrompt(hasArgs, args)
                   [] OTHER -> McpError("InvalidRequest", "Unknown prompt", name))


\* ------------------------------------------------------------- tool handler

\* The CallToolRequestSchema handler up to its first await.
CallTool(s, name, hasArgs, args) ==
    /\ pc[s] = "idle"
    /\ req' = [req EXCEPT ![s] = Request("tools/call", name, hasArgs, args)]
    /\ IF ToolCase(name) = "default"
       THEN /\ fx' = [fx EXCEPT ![s] = NoEffects]
            /\ Finish(s, McpError("InvalidRequest", "Unknown tool", name))
            /\ UNCHANGED <<run, child>>
       ELSE IF ~hasArgs
       THEN /\ fx' = [fx EXCEPT ![s] = Entered(ToolCase(name))]
            /\ Finish(s, TypeErrorThrown(name))
            /\ UNCHANGED <<run, child>>
       ELSE CASE ToolCase(name) = "run-filter-simulation" ->
                    /\ pc' = [pc EXCEPT ![s] = "await_access"]
                    /\ loc' = [loc EXCEPT ![s] = [stage |-> "simulation"]]
                    /\ fx' = [fx EXCEPT ![s] =
                                 [Entered(ToolCase(name)) EXCEPT !.accesses = <<TestDir>>]]
                    /\ UNCHANGED <<run, child, resp>>
              [] ToolCase(name) = "analyze-verilog-syntax" ->
                    /\ AwaitRead(s, Arg(args, "file_path", UndefinedPath),
                                 [stage |-> "verilog"], Entered(ToolCase(name)))
                    /\ UNCHANGED <<run, child>>
              [] ToolCase(name) = "suggest-makefile-fixes" ->
                    /\ AwaitRead(s, Arg(args, "makefile_path", UndefinedPath),
                                 [stage |-> "makefile"], Entered(ToolCase(name)))
                    /\ UNCHANGED <<run, child>>
              [] ToolCase(name) = "check-interface-compatibility" ->
                    /\ AwaitRead(s, Arg(args, "testbench_file", UndefinedPath),
                                 [stage |-> "testbench"], Entered(ToolCase(name)))
                    /\ UNCHANGED <<run, child>>
              [] ToolCase(name) = "cross-reference-signals" ->
                    /\ fx' = [fx EXCEPT ![s] = Entered(ToolCase(name))]
                    /\ Finish(s, ToolResult(
                           SignalReport(Arg(args, "hierarchy_level", Undefined))))
                    /\ UNCHANGED <<run, child>>
              [] ToolCase(name) = "check-requirements-compliance" ->
                    /\ fx' = [fx EXCEPT ![s] = Entered(ToolCase(name))]
                    /\ Finish(s, ToolResult(
                           ComplianceReport(Arg(args, "requirement_type", Undefined))))
                    /\ UNCHANGED <<run, child>>

\* FsAccessDone with the command started whatever fs.access answered.
FsAccessDoneUnchecked(s, ok) ==
    /\ pc[s] = "await_access"
    /\ UNCHANGED req
    /\ LET a == req[s].args
           fullCommand == FullCommand(Arg(a, "test_type", Undefined),
                                      Arg(a, "debug", FALSE),
                                      Arg(a, "waves", FALSE))
       IN  AwaitCommand(s, "bash", SimulationArgs(fullCommand), TestDir,
                        [stage |-> "simulation", fullCommand |-> fullCommand],
                        IF ok THEN fx[s] ELSE Failed(fx[s], "access"))

\* fs.access(testDir) settles and run-filter-simulation goes on to its next
\* await, or to its catch block.
FsAccessDone(s, ok) ==
    /\ pc[s] = "await_access"
    /\ UNCHANGED req
    /\ IF ok
       THEN LET a == req[s].args
                fullCommand == FullCommand(Arg(a, "test_type", Undefined),
                                           Arg(a, "debug", FALSE),
                                           Arg(a, "waves", FALSE))
            IN  AwaitCommand(s, "bash", SimulationArgs(fullCommand), TestDir,
                             [stage |-> "simulation", fullCommand |-> fullCommand],
                             fx[s])
       ELSE /\ Finish(s, ToolResult(SimulationFailedText(AccessError(TestDir))))
            /\ fx' = [fx EXCEPT ![s] = Failed(@, "access")]
            /\ UNCHANGED <<run, child>>

\* fs.readFile settles and the handler that awaits it goes on to its next
\* await or to its return.  A path that is undefined is never read.
FsReadDone(s, outcome) ==
    /\ pc[s] = "await_read"
    /\ outcome.ok => loc[s].path # UndefinedPath
    /\ UNCHANGED req
    /\ LET a == req[s].args
           effects == AfterRead(fx[s], outcome)
       IN  CASE loc[s].stage = "resource" ->
                    /\ Finish(s, ResourceReadResponse(req[s].id, outcome))
                    /\ fx' = [fx EXCEPT ![s] = effects]
                    /\ UNCHANGED <<run, child>>
             [] loc[s].stage = "makefile" ->
                    LET got == analyzeMakefile(loc[s].path, outcome)
                    IN  /\ Finish(s, ToolResult(
                               IF got.ok THEN MakefileReport(loc[s].path, got.value)
                               ELSE MakefileFailedText(got.error)))
                        /\ fx' = [fx EXCEPT ![s] = effects]
                        /\ UNCHANGED <<run, child>>
             [] loc[s].stage = "verilog" ->
                    LET got == analyzeVerilogFile(loc[s].path, outcome)
                    IN  IF got.ok
                        THEN AwaitCommand(s, "verilator", LintArgs(loc[s].path), UndefinedPath,
                                 [stage |-> "lint",
                                  report |-> VerilogReport(loc[s].path,
                                                 Arg(a, "check_packages", TRUE),
                                                 got.value)],
                                 effects)
                        ELSE /\ Finish(s, ToolResult(VerilogFailedText(got.error)))
                             /\ fx' = [fx EXCEPT ![s] = effects]
                             /\ UNCHANGED <<run, child>>
             [] loc[s].stage = "testbench" ->
                    LET got == analyzeVerilogFile(loc[s].path, outcome)
                    IN  IF got.ok
                        THEN /\ AwaitRead(s, Arg(a, "rtl_file", UndefinedPath),
                                     [stage |-> "rtl", testbench |-> got.value],
                                     effects)
                             /\ UNCHANGED <<run, child>>
                        ELSE /\ Finish(s, ToolResult(InterfaceFailedText(got.error)))
                             /\ fx' = [fx EXCEPT ![s] = effects]
                             /\ UNCHANGED <<run, child>>
             [] loc[s].stage = "rtl" ->
                    LET got == analyzeVerilogFile(loc[s].path, outcome)
                    IN  /\ Finish(s, ToolResult(
                               IF got.ok
                               THEN InterfaceReport(
                                        Arg(a, "testbench_file", UndefinedPath),
                                        Arg(a, "rtl_file", UndefinedPath),
                                        loc[s].testbench, got.value)
                               ELSE InterfaceFailedText(got.error)))
                        /\ fx' = [fx EXCEPT ![s] = effects]
                        /\ UNCHANGED <<run, child>>


\* ------------------------------------------------------------ child events

\* ChildStdout with one output buffer that every run in flight shares.
ChildStdoutShared(s, data, limit) ==
    /\ child[s].state = "child" /\ child[s].spawnOk /\ ~child[s].closed
    /\ Len(child[s].out) + Len(child[s].err) < limit
    /\ child' = [child EXCEPT ![s].out = Append(@, data)]
    /\ run' = [t \in DOMAIN run |->
                  IF run[t].state = "spawned" THEN OnStdoutData(run[t], data)
                  ELSE run[t]]
    /\ UNCHANGED <<pc, req, loc, resp, fx>>

\* The child of slot s writes a chunk to its standard output and the 'data'
\* listener runs.  limit bounds the data events of one child.
ChildStdout(s, data, limit) ==
    /\ child[s].state = "child" /\ child[s].spawnOk /\ ~child[s].closed
    /\ Len(child[s].out) + Len(child[s].err) < limit
    /\ child' = [child EXCEPT ![s].out = Append(@, data)]
    /\ run' = [run EXCEPT ![s] = OnStdoutData(@, data)]
    /\ UNCHANGED <<pc, req, loc, resp, fx>>

\* The child of slot s writes a chunk to its standard error.
ChildStderr(s, data, limit) ==
    /\ child[s].state = "child" /\ child[s].spawnOk /\ ~child[s].closed
    /\ Len(child[s].out) + Len(child[s].err) < limit
    /\ child' = [child EXCEPT ![s].err = Append(@, data)]
    /\ run' = [run EXCEPT ![s] = OnStderrData(@, data)]
    /\ UNCHANGED <<pc, req, loc, resp, fx>>

\* The shell could not be started: the ChildProcess emits 'error'.
ChildError(s) ==
    /\ child[s].state = "child" /\ ~child[s].spawnOk
    /\ ~child[s].errored /\ ~child[s].closed
    /\ child' = [child EXCEPT ![s].errored = TRUE]
    /\ run' = [run EXCEPT ![s] = OnError(@, SpawnError(run[s].cwd))]
    /\ UNCHANGED <<pc, req, loc, resp, fx>>

\* The child ended and its streams closed: the ChildProcess emits 'close',
\* after the 'error' of a spawn that failed.
ChildClose(s, status) ==
    /\ child[s].state = "child" /\ ~child[s].closed
    /\ IF child[s].spawnOk THEN status \in ExitStatuses
       ELSE child[s].errored /\ status = FailedSpawnStatus
    /\ child' = [child EXCEPT ![s].closed = TRUE, ![s].status = status]
    /\ run' = [run EXCEPT ![s] = OnClose(@, status)]
    /\ UNCHANGED <<pc, req, loc, resp, fx>>

\* The promise of executeCommand is settled and the handler that awaits it
\* goes on to its return.
CommandSettled(s) ==
    /\ pc[s] = "await_command"
    /\ run[s].promise.state # "pending"
    /\ LET settled == run[s].promise
       IN  /\ fx' = [fx EXCEPT ![s] = IF settled.state = "rejected"
                                      THEN Failed(@, "command") ELSE @]
           /\ CASE loc[s].stage = "simulation" ->
                      Finish(s, SimulationResponse(loc[s].fullCommand, settled))
                [] loc[s].stage = "lint" ->
                      Finish(s, ToolResult(WithLint(loc[s].report, settled)))
    /\ UNCHANGED <<req, run, child>>

\* The transport sends the response of slot s; the slot is free again.
Reply(s) ==
    /\ pc[s] = "done"
    /\ pc' = [pc EXCEPT ![s] = "idle"]
    /\ req' = [req EXCEPT ![s] = NoReq]
    /\ loc' = [loc EXCEPT ![s] = NoLocals]
    /\ run' = [run EXCEPT ![s] = NoRun]
    /\ child' = [child EXCEPT ![s] = NoChild]
    /\ resp' = [resp EXCEPT ![s] = NoResp]
    /\ fx' = [fx EXCEPT ![s] = NoEffects]

\* --------------------------------------------------- the requests of Spec

ResourceIds ==
    ListedResourceIds
    \cup {"opennic://filter", "OPENNIC://REGISTER-MAP", "run-filter-simulation"}

ToolIds ==
    ListedToolIds
    \cup {"run-filter", "RUN-FILTER-SIMULATION", "analyze-filter-code",
          "opennic://register-map"}

PromptIds ==
    ListedPromptIds
    \cup {"create-test", "Create-Test-Scenario", "suggest-makefile-fixes"}

\* Paths a request can name: a plain one, one with a space in it, and one
\* with a shell command separator in it.
FilePaths == {<<"filter.sv">>, <<"my", "filter.sv">>, <<"x.sv", ";", "reboot">>}

\* arguments: {} of a request.
NoArgs == <<>>

\* The argument objects the model sends with a call of each tool.
ToolArgs(name) ==
    CASE name = "run-filter-simulation" ->
            {NoArgs, [debug |-> TRUE], [test_type |-> "bogus"],
             [test_type |-> "all"], [test_type |-> "basic", waves |-> TRUE],
             [test_type |-> "csr", debug |-> TRUE, waves |-> FALSE]}
      [] name = "analyze-verilog-syntax" ->
            {NoArgs, [check_packages |-> FALSE]}
            \cup {[file_path |-> p] : p \in FilePaths}
            \cup {[file_path |-> <<"filter.sv">>, check_packages |-> c] : c \in BOOLEAN}
      [] name = "suggest-makefile-fixes" ->
            {NoArgs, [makefile_path |-> <<"Makefile">>]}
      [] name = "check-interface-compatibility" ->
            {NoArgs, [testbench_file |-> <<"tb.sv">>], [rtl_file |-> <<"filter.sv">>],
             [testbench_file |-> <<"tb.sv">>, rtl_file |-> <<"filter.sv">>]}
      [] name = "cross-reference-signals" ->
            {NoArgs} \cup {[hierarchy_level |-> l] : l \in {"top", "parser", "all", "bogus"}}
      [] name = "check-requirements-compliance" ->
            {NoArgs}
            \cup {[requirement_type |-> t] :
                     t \in {"functional", "interface", "performance", "all", "bogus"}}
      [] OTHER -> {NoArgs, [test_type |-> "basic"]}

\* The argument objects the model sends with a render of each prompt.
PromptArgs(name) ==
    CASE name = "create-test-scenario" ->
            {NoArgs, [scenario_type |-> ""], [scenario_type |-> "edge_case"],
             [packet_type |-> "IPv6"],
             [scenario_type |-> "basic", packet_type |-> "IPv4"],
             [scenario_type |-> "basic", include_debug |-> "true"]}
      [] name = "debug-workflow-guide" ->
            {NoArgs, [symptoms |-> "hangs"], [issue_type |-> "timing"],
             [issue_type |-> "compilation", symptoms |-> "Not specified"],
             [issue_type |-> "other"]}
      [] OTHER -> {NoArgs, [scenario_type |-> "basic"]}

\* The chunks a child writes in Spec.
Chunks == {<<97>>}

\* The outcomes of a read.
ReadOutcomes == {ReadError} \cup {ReadOk(c) : c \in FileContents}

Next ==
    \E s \in Slots :
        \/ ListResources(s)
        \/ ListTools(s)
        \/ ListPrompts(s)
        \/ \E uri \in ResourceIds : ReadResource(s, uri)
        \/ \E name \in ToolIds : \E args \in ToolArgs(name) : CallTool(s, name, TRUE, args)
        \/ \E name \in ToolIds : CallTool(s, name, FALSE, NoArgs)
        \/ \E name \in PromptIds : \E args \in PromptArgs(name) :
               GetPrompt(s, name, TRUE, args)
        \/ \E name \in PromptIds : GetPrompt(s, name, FALSE, NoArgs)
        \/ \E ok \in BOOLEAN : FsAccessDone(s, ok)
        \/ \E outcome \in ReadOutcomes : FsReadDone(s, outcome)
        \/ \E data \in Chunks : ChildStdout(s, data, MaxChunks)
        \/ \E data \in Chunks : ChildStderr(s, data, MaxChunks)
        \/ ChildError(s)
        \/ \E status \in ExitStatuses \cup {FailedSpawnStatus} : ChildClose(s, status)
        \/ CommandSettled(s)
        \/ Reply(s)

Spec == Init /\ [][Next]_vars


\* ------------------------------------------------- executeCommand on its own

\* A caller other than a tool handler calls executeCommand in slot s.
RunnerCall(s, command, args, cwd) ==
    /\ pc[s] = "idle"
    /\ pc' = [pc EXCEPT ![s] = "runner"]
    /\ run' = [run EXCEPT ![s] = Spawn(command, args, cwd)]
    /\ \E spawnOk \in BOOLEAN : child' = [child EXCEPT ![s] = NewChild(spawnOk)]
    /\ UNCHANGED <<req, loc, resp, fx>>

\* The caller has its outcome and the child is gone.
RunnerRelease(s) ==
    /\ pc[s] = "runner"
    /\ child[s].closed
    /\ pc' = [pc EXCEPT ![s] = "idle"]
    /\ run' = [run EXCEPT ![s] = NoRun]
    /\ child' = [child EXCEPT ![s] = NoChild]
    /\ UNCHANGED <<req, loc, resp, fx>>

\* The calls of SpecRunner: the two calls the tool handlers make, and a lint
\* of a path that holds a command separator.
RunnerCalls ==
    {[command |-> "bash",
      args |-> SimulationArgs(FullCommand("all", FALSE, FALSE)),
      cwd |-> TestDir],
     [command |-> "verilator", args |-> LintArgs(<<"filter.sv">>), cwd |-> UndefinedPath],
     [command |-> "verilator", args |-> LintArgs(<<"x.sv", ";", "reboot">>),
      cwd |-> UndefinedPath]}

\* The chunks a child writes to its standard output in SpecRunner: "a", and
\* the two bytes of U+00E9, together and apart.
RunnerChunks == {<<97>>, <<195, 169>>, <<195>>, <<169>>}

\* The chunks a child writes to its standard error in SpecRunner.
RunnerErrChunks == {<<101>>}

NextRunner ==
    \E s \in Slots :
        \/ \E c \in RunnerCalls : RunnerCall(s, c.command, c.args, c.cwd)
        \/ \E data \in RunnerChunks : ChildStdout(s, data, MaxRunnerChunks)
        \/ \E data \in RunnerErrChunks : ChildStderr(s, data, MaxRunnerChunks)
        \/ ChildError(s)
        \/ \E status \in ExitStatuses \cup {FailedSpawnStatus} : ChildClose(s, status)
        \/ RunnerRelease(s)

SpecRunner == Init /\ [][NextRunner]_vars


\* ------------------------------------------------- overlapping invocations

\* The server handles a request as soon as its message arrives, each handler
\* an async function of its own: NumOverlap invocations can be in flight.
OverlapSlots == 1..NumOverlap

InitOverlap ==
    /\ pc = [s \in OverlapSlots |-> "idle"]
    /\ req = [s \in OverlapSlots |-> NoReq]
    /\ loc = [s \in OverlapSlots |-> NoLocals]
    /\ run = [s \in OverlapSlots |-> NoRun]
    /\ child = [s \in OverlapSlots |-> NoChild]
    /\ resp = [s \in OverlapSlots |-> NoResp]
    /\ fx = [s \in OverlapSlots |-> NoEffects]

\* The chunk the child of slot s writes: every child writes bytes of its own.
OverlapChunks(s) == {<<96 + s>>}

\* The tool calls of SpecOverlap: each call that takes an optional parameter,
\* without it and with its default.
OverlapToolCalls ==
    {[name |-> "run-filter-simulation", args |-> [test_type |-> "all"]],
     [name |-> "run-filter-simulation",
      args |-> [test_type |-> "all", debug |-> FALSE, waves |-> FALSE]],
     [name |-> "analyze-verilog-syntax", args |-> [file_path |-> <<"filter.sv">>]],
     [name |-> "analyze-verilog-syntax",
      args |-> [file_path |-> <<"filter.sv">>, check_packages |-> TRUE]],
     [name |-> "check-interface-compatibility",
      args |-> [testbench_file |-> <<"tb.sv">>, rtl_file |-> <<"filter.sv">>]]}

\* The prompt renders of SpecOverlap, likewise.
OverlapPromptCalls ==
    {[name |-> "create-test-scenario", args |-> [scenario_type |-> "basic"]],
     [name |-> "create-test-scenario",
      args |-> [scenario_type |-> "basic", packet_type |-> "IPv4"]],
     [name |-> "debug-workflow-guide", args |-> [issue_type |-> "timing"]],
     [name |-> "debug-workflow-guide",
      args |-> [issue_type |-> "timing", symptoms |-> "Not specified"]]}

OverlapReadOutcomes == {ReadError, ReadOk(VerilogText), ReadOk(EmptyText)}

OverlapExitStatuses == {[code |-> 0], [code |-> 1], FailedSpawnStatus}

NextOverlap ==
    \E s \in OverlapSlots :
        \/ ListResources(s)
        \/ ListTools(s)
        \/ ListPrompts(s)
        \/ ReadResource(s, "opennic://register-map")
        \/ \E c \in OverlapToolCalls : CallTool(s, c.name, TRUE, c.args)
        \/ \E c \in OverlapPromptCalls : GetPrompt(s, c.name, TRUE, c.args)
        \/ \E ok \in BOOLEAN : FsAccessDone(s, ok)
        \/ \E outcome \in OverlapReadOutcomes : FsReadDone(s, outcome)
        \/ \E data \in OverlapChunks(s) : ChildStdout(s, data, MaxChunks)
        \/ \E data \in OverlapChunks(s) : ChildStderr(s, data, MaxChunks)
        \/ ChildError(s)
        \/ \E status \in OverlapExitStatuses : ChildClose(s, status)
        \/ CommandSettled(s)
        \/ Reply(s)

SpecOverlap == InitOverlap /\ [][NextOverlap]_vars


\* ------------------------------------------------- the analyzers on any text

\* Every text of at most n lexemes over an alphabet.
TextsUpTo(alphabet, n) == UNION {[1..k -> alphabet] : k \in 0..n}

VerilogAlphabet == {"logic", "input", " ", "[7:0]", "data", "import", "pkg", "::*"}

MakefileAlphabet ==
    {"SIM", "=", "verilator", "not_specified", "\n", "COCOTB_DEBUG", "VERILOG_SOURCES"}

\* A text that declares and imports the same names twice.
RepeatedText ==
    <<"import", " ", "pkg", "::*", "\n", "import", " ", "pkg", "::*", "\n",
      "input", " ", "data", "\n", "input", " ", "data", "\n",
      "logic", " ", "valid", "\n", "logic", " ", "valid">>

\* A text without any of the keywords the patterns start with.
CommentText == <<"test", " ", "clean", ";", "\n", "[7:0]", " ", "valid">>

\* The source texts analyze-verilog-syntax is given.
VerilogTexts ==
    TextsUpTo(VerilogAlphabet, MaxTextLen) \cup {VerilogText, RepeatedText, CommentText}

\* The build scripts suggest-makefile-fixes is given.
MakefileTexts == TextsUpTo(MakefileAlphabet, MaxTextLen) \cup {MakefileText}

\* The text that declares the given names as input ports, one a line.
RECURSIVE PortText(_)
PortText(names) ==
    IF names = <<>> THEN <<>>
    ELSE <<"input", " ", Head(names), "\n">> \o PortText(Tail(names))

\* The texts check-interface-compatibility is given, as testbench and as RTL:
\* port lists that are empty, equal, overlapping, disjoint and repeating.
InterfaceTexts ==
    {PortText(names) :
        names \in {<<>>, <<"data">>, <<"data", "valid">>, <<"valid", "clk">>,
                   <<"data", "data", "clk">>,
                   <<"data", "valid", "clk", "pkg", "test">>,
                   <<"data", "valid", "clk", "pkg", "clean">>}}
    \cup {VerilogText}

\* The one invocation of SpecTexts.
TextSlots == {1}

InitTexts ==
    /\ pc = [s \in TextSlots |-> "idle"]
    /\ req = [s \in TextSlots |-> NoReq]
    /\ loc = [s \in TextSlots |-> NoLocals]
    /\ run = [s \in TextSlots |-> NoRun]
    /\ child = [s \in TextSlots |-> NoChild]
    /\ resp = [s \in TextSlots |-> NoResp]
    /\ fx = [s \in TextSlots |-> NoEffects]

\* The texts the file that is being read can hold, by the tool that reads it.
TextsFor(stage) ==
    CASE stage = "verilog" -> VerilogTexts
      [] stage = "makefile" -> MakefileTexts
      [] stage \in {"testbench", "rtl"} -> InterfaceTexts
      [] OTHER -> {}

TextToolCalls ==
    {[name |-> "analyze-verilog-syntax", args |-> [file_path |-> <<"filter.sv">>]],
     [name |-> "suggest-makefile-fixes", args |-> [makefile_path |-> <<"Makefile">>]],
     [name |-> "check-interface-compatibility",
      args |-> [testbench_file |-> <<"tb.sv">>, rtl_file |-> <<"filter.sv">>]]}

NextTexts ==
    \E s \in TextSlots :
        \/ \E c \in TextToolCalls : CallTool(s, c.name, TRUE, c.args)
        \/ FsReadDone(s, ReadError)
        \/ /\ pc[s] = "await_read"
           /\ \E content \in TextsFor(loc[s].stage) : FsReadDone(s, ReadOk(content))
        \/ ChildError(s)
        \/ \E status \in OverlapExitStatuses : ChildClose(s, status)
        \/ CommandSettled(s)
        \/ Reply(s)

SpecTexts == InitTexts /\ [][NextTexts]_vars


\* ------------------------------------------- child events in every order

\* One run of executeCommand whose listeners are handed the child's events
\* in every order: 'error' before or after 'close', each at most once, and
\* 'data' before, between and after them.
EventSlots == {1}

InitEvents ==
    /\ pc = [s \in EventSlots |-> "idle"]
    /\ req = [s \in EventSlots |-> NoReq]
    /\ loc = [s \in EventSlots |-> NoLocals]
    /\ run = [s \in EventSlots |-> NoRun]
    /\ child = [s \in EventSlots |-> NoChild]
    /\ resp = [s \in EventSlots |-> NoResp]
    /\ fx = [s \in EventSlots |-> NoEffects]

\* A 'data' event of the standard output, whatever was emitted before.
EventStdout(s, data) ==
    /\ child[s].state = "child"
    /\ Len(child[s].out) + Len(child[s].err) < MaxRunnerChunks
    /\ child' = [child EXCEPT ![s].out = Append(@, data)]
    /\ run' = [run EXCEPT ![s] = OnStdoutData(@, data)]
    /\ UNCHANGED <<pc, req, loc, resp, fx>>

\* A 'data' event of the standard error, whatever was emitted before.
EventStderr(s, data) ==
    /\ child[s].state = "child"
    /\ Len(child[s].out) + Len(child[s].err) < MaxRunnerChunks
    /\ child' = [child EXCEPT ![s].err = Append(@, data)]
    /\ run' = [run EXCEPT ![s] = OnStderrData(@, data)]
    /\ UNCHANGED <<pc, req, loc, resp, fx>>

\* The 'error' event, before or after 'close'.
EventError(s) ==
    /\ child[s].state = "child" /\ ~child[s].errored
    /\ child' = [child EXCEPT ![s].errored = TRUE]
    /\ run' = [run EXCEPT ![s] = OnError(@, SpawnError(run[s].cwd))]
    /\ UNCHANGED <<pc, req, loc, resp, fx>>

\* The 'close' event, before or after 'error'.
EventClose(s, status) ==
    /\ child[s].state = "child" /\ ~child[s].closed
    /\ child' = [child EXCEPT ![s].closed = TRUE, ![s].status = status]
    /\ run' = [run EXCEPT ![s] = OnClose(@, status)]
    /\ UNCHANGED <<pc, req, loc, resp, fx>>

NextEvents ==
    \E s \in EventSlots :
        \/ \E c \in RunnerCalls : RunnerCall(s, c.command, c.args, c.cwd)
        \/ \E data \in RunnerChunks : EventStdout(s, data)
        \/ \E data \in RunnerErrChunks : EventStderr(s, data)
        \/ EventError(s)
        \/ \E status \in ExitStatuses \cup {FailedSpawnStatus} : EventClose(s, status)
        \/ RunnerRelease(s)

SpecEvents == InitEvents /\ [][NextEvents]_vars


\* ----------------------------------------------------------------- claims

Busy(s) == pc[s] # "idle" /\ pc[s] # "runner"

\* The invocation of slot s names an id that its variant's list does not hold.
UnknownId(s) ==
    \/ req[s].method = "resources/read" /\ req[s].id \notin ListedResourceIds
    \/ req[s].method = "tools/call" /\ req[s].id \notin ListedToolIds
    \/ req[s].method = "prompts/get" /\ req[s].id \notin ListedPromptIds

UnknownWhat(method) ==
    CASE method = "resources/read" -> "Unknown resource"
      [] method = "tools/call" -> "Unknown tool"
      [] method = "prompts/get" -> "Unknown prompt"

\* C1: an id that is not exactly one of the listed ids of its variant (a
\* prefix or a case variant of one included) ends in the unknown-capability
\* error that names it, at once: no case body is entered, no file is read or
\* checked, and no subprocess is spawned.
C1_UnknownIdRejected ==
    \A s \in Slots :
        Busy(s) /\ UnknownId(s) =>
            /\ pc[s] = "done"
            /\ resp[s] = McpError("InvalidRequest", UnknownWhat(req[s].method), req[s].id)
            /\ fx[s] = NoEffects
            /\ run[s] = NoRun /\ child[s] = NoChild

C1_Witness ==
    \E s \in Slots :
        /\ pc[s] = "done"
        /\ req[s].method = "tools/call" /\ req[s].id = "RUN-FILTER-SIMULATION"
        /\ resp[s].kind = "error"

\* The required parameters that the call of slot s leaves out.
MissingRequired(s) ==
    IF req[s].method = "tools/call" /\ req[s].id \in ListedToolIds
    THEN ToolDescriptor(req[s].id).required \ DOMAIN req[s].args
    ELSE IF req[s].method = "prompts/get" /\ req[s].id \in ListedPromptIds
    THEN PromptDescriptor(req[s].id).required \ DOMAIN req[s].args
    ELSE {}

\* The response is the InvalidArguments error that names one of params.
InvalidArgumentsNaming(response, params) ==
    /\ response.kind = "error"
    /\ response.code = "InvalidArguments"
    /\ response.what \in params

\* C2: a tool call that leaves out a parameter its input shape requires
\* returns InvalidArguments naming the parameter, and executeCommand is never
\* called for it.
C2_MissingRequiredRejected ==
    \A s \in Slots :
        req[s].method = "tools/call" /\ MissingRequired(s) # {} =>
            /\ fx[s].spawns = 0
            /\ run[s] = NoRun
            /\ pc[s] = "done" => InvalidArgumentsNaming(resp[s], MissingRequired(s))

\* The call of slot s gives the enum-typed parameter of its tool a value
\* outside the declared set.
EnumViolated(s) ==
    /\ req[s].method = "tools/call" /\ req[s].id \in ListedToolIds
    /\ LET d == ToolDescriptor(req[s].id)
       IN  /\ d.enumOf \in DOMAIN req[s].args
           /\ req[s].args[d.enumOf] \notin d.enum

\* C3: a tool call whose enum-typed parameter is outside the declared set is
\* rejected before any side effect: no directory check, no spawn, no report.
C3_EnumViolationRejected ==
    \A s \in Slots :
        EnumViolated(s) =>
            /\ fx[s].accesses = <<>> /\ fx[s].reads = <<>> /\ fx[s].spawns = 0
            /\ pc[s] = "done" => resp[s].kind = "error"

\* C4: a prompt render that leaves out a parameter declared required yields
\* InvalidArguments naming the parameter, and no rendered document.
C4_PromptMissingRequiredRejected ==
    \A s \in Slots :
        req[s].method = "prompts/get" /\ MissingRequired(s) # {} /\ pc[s] = "done" =>
            InvalidArgumentsNaming(resp[s], MissingRequired(s))

\* The text describes the failure of the collaborator: the failure texts by
\* their error, the lint section of a report by its issues.
DescribesFailure(text, failure) ==
    CASE failure = "access" ->
            text.tag = "SimulationFailed" /\ text.error.kind = "AccessFailed"
      [] failure = "read" ->
            /\ text.tag \in {"VerilogFailed", "MakefileFailed", "InterfaceFailed"}
            /\ text.error.inner.kind = "ReadFailed"
      [] failure = "command" ->
            \/ /\ text.tag = "SimulationFailed"
               /\ text.error.kind \in {"CommandFailed", "SpawnError"}
            \/ /\ text.tag = "VerilogReportWithLint"
               /\ ~text.lintClean
               /\ Len(text.lintIssues) = 1
               /\ text.lintIssues[1].kind \in {"CommandFailed", "SpawnError"}

\* C5: a call of a registered tool in which a collaborator failed (a file not
\* readable, the directory missing, a subprocess that exits non-zero or fails
\* to spawn) does not raise: its response is a result whose content is
\* exactly one block of kind "text" that describes the failure.
C5_CollaboratorFailureInBand ==
    \A s \in Slots :
        /\ pc[s] = "done" /\ req[s].method = "tools/call"
        /\ req[s].id \in ListedToolIds /\ fx[s].failures # <<>>
        => /\ resp[s].kind = "result"
           /\ Len(resp[s].body.content) = 1
           /\ resp[s].body.content[1].type = "text"
           /\ Len(fx[s].failures) = 1
           /\ DescribesFailure(resp[s].body.content[1].text, fx[s].failures[1])

C5_Witness ==
    \E s \in Slots :
        /\ pc[s] = "done" /\ req[s].id = "run-filter-simulation"
        /\ fx[s].failures = <<"command">>
        /\ resp[s].kind = "result"
        /\ resp[s].body.content[1].text.error.kind = "SpawnError"

\* The fallback message of each file-backed resource.
C6_Fallback(uri) ==
    CASE uri = "opennic://filter-requirements" ->
            "Requirements document not found. Please ensure the OpenNIC project is available."
      [] uri = "opennic://filter-implementation" ->
            "Implementation document not found. Please ensure the submission document exists."
      [] uri = "opennic://register-map" ->
            "Register map documentation not found."

C6_FileBacked ==
    {"opennic://filter-requirements", "opennic://filter-implementation",
     "opennic://register-map"}

\* C6: a read of a listed file-backed resource never raises and returns
\* exactly one text block: the resource's fixed fallback message when the
\* file cannot be read, the content of the file when it can.
C6_ResourceReadBestEffort ==
    \A s \in Slots :
        pc[s] = "done" /\ req[s].method = "resources/read" /\ req[s].id \in C6_FileBacked
        => /\ resp[s].kind = "result"
           /\ Len(resp[s].body.contents) = 1
           /\ resp[s].body.contents[1].type = "text"
           /\ fx[s].reads = <<ResourcePath(req[s].id)>>
           /\ IF fx[s].failures # <<>>
              THEN resp[s].body.contents[1].text = FixedText(C6_Fallback(req[s].id))
              ELSE /\ Len(fx[s].contents) = 1
                   /\ resp[s].body.contents[1].text = FileText(fx[s].contents[1])

C6_Witness ==
    \E s \in Slots :
        /\ pc[s] = "done" /\ req[s].id = "opennic://register-map"
        /\ fx[s].failures = <<"read">>
        /\ resp[s].body.contents[1].text.tag = "fixed"


RECURSIVE DecodeEach(_)
\* The decoded chunks of one stream, concatenated in arrival order.
DecodeEach(chunks) ==
    IF chunks = <<>> THEN <<>> ELSE Utf8Decode(Head(chunks)) \o DecodeEach(Tail(chunks))

Spawned(s) == run[s].state = "spawned"
Resolved(s) == Spawned(s) /\ run[s].promise.state = "resolved"
Rejected(s) == Spawned(s) /\ run[s].promise.state = "rejected"

\* The failure carries the captured stderr and the exit code.
CarriesStderrAndCode(reason) ==
    /\ "stderr" \in DOMAIN reason
    /\ "status" \in DOMAIN reason

C8_StdoutIsWhatTheChildWrote ==
    \A s \in Slots :
        Resolved(s) => run[s].promise.value.stdout = Utf8Decode(Flatten(child[s].out))

\* C9: each element of args reaches the command as one argument with the given
\* value, in the given order, and the child runs in the given directory.
C9_ArgsReachCommandUnchanged ==
    \A s \in Slots :
        Spawned(s) =>
            LET started == ShellExec(run[s].shellLine)
            IN  /\ started.file = run[s].command
                /\ ~started.more
                /\ Len(started.argv) = Len(run[s].args)
                /\ \A i \in 1..Len(run[s].args) : run[s].args[i] = <<started.argv[i]>>
                /\ run[s].childCwd = run[s].cwd

\* The promise of slot s is settled in this step.
SettlesIn(s) ==
    /\ Spawned(s) /\ run[s].promise.state = "pending"
    /\ run'[s].state = "spawned" /\ run'[s].promise.state # "pending"

\* A 'close' or an 'error' event of the child of slot s is handled in this step.
CloseOrErrorIn(s) ==
    \/ ~child[s].closed /\ child'[s].closed
    \/ ~child[s].errored /\ child'[s].errored

\* The tool call of slot s stops awaiting executeCommand in this step.
ResumesIn(s) == pc[s] = "await_command" /\ pc'[s] # "await_command"

\* C10: executeCommand imposes no timeout.  Its promise is settled only in a
\* step that handles a 'close' or an 'error' event of the child, and the tool
\* call that awaits it goes on only once it is settled; until then both stay
\* pending.
C10_SettledOnlyByCloseOrError ==
    [][\A s \in Slots :
           /\ SettlesIn(s) => CloseOrErrorIn(s)
           /\ ResumesIn(s) => run[s].promise.state # "pending"]_vars

C10_Witness ==
    \E s \in Slots :
        /\ pc[s] = "await_command"
        /\ run[s].promise.state = "pending"
        /\ child[s].out # <<>>
        /\ ~child[s].closed /\ ~child[s].errored

\* The bytes the children of the slots other than s write.
BytesOfOthers(s) ==
    UNION {Range(data) : data \in UNION {OverlapChunks(t) : t \in OverlapSlots \ {s}}}

\* The text holds nothing but what the chunks hold, decoded one by one in
\* arrival order, and no byte of another child.
OwnChunksOnly(s, text, chunks) ==
    /\ text = DecodeEach(chunks)
    /\ Range(text) \cap BytesOfOthers(s) = {}

\* C11: with several executeCommand runs in flight and their data events
\* interleaved in any order, the stdout and stderr of each run, and the
\* outcome it settles with, hold only the chunks of its own child.
C11_RunsHoldOwnChunksOnly ==
    \A s \in OverlapSlots :
        Spawned(s) =>
            /\ OwnChunksOnly(s, run[s].stdout, child[s].out)
            /\ OwnChunksOnly(s, run[s].stderr, child[s].err)
            /\ Resolved(s) =>
                  /\ OwnChunksOnly(s, run[s].promise.value.stdout, child[s].out)
                  /\ OwnChunksOnly(s, run[s].promise.value.stderr, child[s].err)
            /\ Rejected(s) /\ ~child[s].errored =>
                  OwnChunksOnly(s, run[s].promise.reason.stderr, child[s].err)

C11_Witness ==
    \E s, t \in OverlapSlots :
        /\ s # t
        /\ Resolved(s) /\ run[s].promise.value.stdout # <<>>
        /\ Rejected(t) /\ ~child[t].errored /\ run[t].promise.reason.stderr # <<>>

\* The run-filter-simulation call of slot s awaits a subprocess that has not
\* exited.
SimulationPending(s) ==
    /\ pc[s] = "await_command"
    /\ req[s].id = "run-filter-simulation"
    /\ run[s].promise.state = "pending"
    /\ ~child[s].closed

ListMethods == {"resources/list", "tools/list", "prompts/list"}

\* C12: while a run-filter-simulation call is pending on a subprocess that
\* has not exited, a list request, or a call that needs no subprocess, that
\* arrives in the meantime is handled without waiting for the exit: its
\* handler can run, and a list is answered in the one step its handler takes.
C12_ListsDoNotWaitForSubprocess ==
    \A s, t \in OverlapSlots :
        /\ SimulationPending(s) /\ pc[t] = "idle" =>
              /\ ENABLED ListResources(t)
              /\ ENABLED ListTools(t)
              /\ ENABLED ListPrompts(t)
              /\ ENABLED ReadResource(t, "opennic://register-map")
              /\ ENABLED GetPrompt(t, "debug-workflow-guide", TRUE,
                                   [issue_type |-> "timing"])
        /\ req[t].method \in ListMethods =>
              pc[t] = "done" /\ resp[t].kind = "result"

C12_Witness ==
    \E s, t \in OverlapSlots :
        /\ SimulationPending(s)
        /\ pc[t] = "done" /\ req[t].method = "tools/list"
        /\ resp[t] = Result([tools |-> ToolDescriptors])

\* The ids of the three catalogues in the order the source declares them.
C13_ResourceOrder ==
    <<"opennic://filter-requirements", "opennic://filter-implementation",
      "opennic://register-map", "opennic://simulation-guide",
      "opennic://debug-workflow">>

C13_ToolOrder ==
    <<"run-filter-simulation", "analyze-verilog-syntax",
      "check-interface-compatibility", "suggest-makefile-fixes",
      "cross-reference-signals", "check-requirements-compliance">>

C13_PromptOrder == <<"create-test-scenario", "debug-workflow-guide">>

\* C13: whatever requests came before or are still in flight, successful or
\* failing, each list returns its full catalogue in declaration order: no
\* entry is added, removed, filtered or reordered.
C13_CatalogueStable ==
    \A s \in OverlapSlots :
        pc[s] = "done" /\ req[s].method \in ListMethods =>
            /\ resp[s].kind = "result"
            /\ req[s].method = "resources/list" =>
                  /\ resp[s].body.resources = ResourceDescriptors
                  /\ [i \in DOMAIN resp[s].body.resources |->
                         resp[s].body.resources[i].uri] = C13_ResourceOrder
            /\ req[s].method = "tools/list" =>
                  /\ resp[s].body.tools = ToolDescriptors
                  /\ [i \in DOMAIN resp[s].body.tools |->
                         resp[s].body.tools[i].name] = C13_ToolOrder
            /\ req[s].method = "prompts/list" =>
                  /\ resp[s].body.prompts = PromptDescriptors
                  /\ [i \in DOMAIN resp[s].body.prompts |->
                         resp[s].body.prompts[i].name] = C13_PromptOrder

C13_Witness ==
    \E s, t \in OverlapSlots :
        /\ pc[s] = "done" /\ req[s].method = "resources/list"
        /\ Len(resp[s].body.resources) = 5
        /\ pc[t] = "done" /\ req[t].method = "resources/read"
        /\ fx[t].failures = <<"read">>

InvokeMethods == {"resources/read", "tools/call", "prompts/get"}

\* The response is the unknown-capability error of some variant.
UnknownCapabilityError(response) ==
    /\ response.kind = "error"
    /\ "what" \in DOMAIN response
    /\ response.what \in {"Unknown resource", "Unknown tool", "Unknown prompt"}

\* C14: for each variant the ids the list returns are the ids the invoke
\* handler dispatches on: a listed id is never answered with the
\* unknown-capability error, an id that is not listed always is, and the
\* case the handler enters is the one the id names.
C14_ListedIffDispatched ==
    /\ \A id \in ResourceIds : ResourceCase(id) # "default" <=> id \in ListedResourceIds
    /\ \A id \in ToolIds : ToolCase(id) # "default" <=> id \in ListedToolIds
    /\ \A id \in PromptIds : PromptCase(id) # "default" <=> id \in ListedPromptIds
    /\ \A s \in Slots :
          pc[s] = "done" /\ req[s].method \in InvokeMethods =>
              /\ UnknownCapabilityError(resp[s]) <=> UnknownId(s)
              /\ ~UnknownId(s) => fx[s].handler = req[s].id

C14_Witness ==
    \E s \in Slots :
        /\ pc[s] = "done" /\ req[s].method = "tools/call"
        /\ req[s].id = "cross-reference-signals"
        /\ resp[s].kind = "result"
        /\ fx[s].handler = "cross-reference-signals"

\* What the collaborators did for the invocation of slot s: the outcome of
\* each read and directory check, and what its child wrote and how it ended.
Collaborators(s) ==
    [contents |-> fx[s].contents, failures |-> fx[s].failures, child |-> child[s]]

\* C15: a response depends only on the request and on what the collaborators
\* did for it.  Two invocations with the same request and the same behaviour
\* of the collaborators, whatever was handled before or alongside each, end
\* with the same response after the same collaborator calls; and an
\* invocation that has been answered leaves no state behind.
C15_ResponseDependsOnRequestOnly ==
    /\ \A s, t \in OverlapSlots :
          /\ pc[s] = "done" /\ pc[t] = "done"
          /\ req[s] = req[t] /\ Collaborators(s) = Collaborators(t)
          => resp[s] = resp[t] /\ fx[s] = fx[t] /\ run[s] = run[t]
    /\ \A s \in OverlapSlots :
          pc[s] = "idle" =>
              /\ req[s] = NoReq /\ loc[s] = NoLocals /\ resp[s] = NoResp
              /\ run[s] = NoRun /\ child[s] = NoChild /\ fx[s] = NoEffects

C15_Witness ==
    \E s, t \in OverlapSlots :
        /\ s # t
        /\ pc[s] = "done" /\ pc[t] = "done"
        /\ req[s] = req[t] /\ Collaborators(s) = Collaborators(t)
        /\ req[s].id = "run-filter-simulation"
        /\ Resolved(s) /\ Resolved(t)

\* The documented default of each optional parameter that has one.
C16_Defaults(id) ==
    CASE id = "analyze-verilog-syntax" -> [check_packages |-> TRUE]
      [] id = "run-filter-simulation" -> [debug |-> FALSE, waves |-> FALSE]
      [] id = "create-test-scenario" -> [packet_type |-> "IPv4"]
      [] id = "debug-workflow-guide" -> [symptoms |-> "Not specified"]
      [] OTHER -> <<>>

\* The arguments with each default written out where the request left the
\* parameter out.
C16_WithDefaults(id, args) ==
    LET d == C16_Defaults(id)
    IN  [k \in DOMAIN args \cup DOMAIN d |-> IF k \in DOMAIN args THEN args[k] ELSE d[k]]

\* C16: a request that leaves an optional parameter out is answered as the
\* request that gives the documented default of that parameter: two
\* invocations of one tool or prompt whose arguments agree once the defaults
\* are written out, with the same behaviour of the collaborators, end with
\* the same response after running the same command.
C16_OmittedEqualsDefault ==
    \A s, t \in OverlapSlots :
        /\ pc[s] = "done" /\ pc[t] = "done"
        /\ req[s].method \in {"tools/call", "prompts/get"}
        /\ req[s].method = req[t].method /\ req[s].id = req[t].id
        /\ C16_WithDefaults(req[s].id, req[s].args) = C16_WithDefaults(req[t].id, req[t].args)
        /\ Collaborators(s) = Collaborators(t)
        => resp[s] = resp[t] /\ run[s] = run[t]

C16_Witness ==
    \E s, t \in OverlapSlots :
        /\ pc[s] = "done" /\ pc[t] = "done"
        /\ req[s].id = "analyze-verilog-syntax" /\ req[t].id = "analyze-verilog-syntax"
        /\ req[s].args = [file_path |-> <<"filter.sv">>]
        /\ req[t].args = [file_path |-> <<"filter.sv">>, check_packages |-> TRUE]
        /\ Collaborators(s) = Collaborators(t)
        /\ Resolved(s)
        /\ resp[s] = resp[t]

\* The diagnostics of the two markers that are missing.
C17_MissingMarkerIssues ==
    <<"Missing COCOTB configuration variables",
      "VERILOG_SOURCES not defined - required for compilation">>

\* The suggest-makefile-fixes call of slot s read a build script that holds
\* SIM=verilator and neither marker, and returned its report.
C17_Case(s) ==
    /\ pc[s] = "done" /\ req[s].method = "tools/call"
    /\ req[s].id = "suggest-makefile-fixes"
    /\ Len(fx[s].contents) = 1
    /\ FirstSim(fx[s].contents[1], 1) = "verilator"
    /\ ~HasCocotbMarker(fx[s].contents[1])
    /\ ~HasSourcesMarker(fx[s].contents[1])

\* C17: suggest-makefile-fixes on a build script that holds SIM=verilator and
\* neither marker lists exactly the two missing-marker diagnostics, and its
\* recommendations tell the user to add the two missing configuration lines:
\* one recommended text defines a COCOTB_ variable and one defines
\* VERILOG_SOURCES.
C17_FixesAddMissingLines ==
    \A s \in Slots :
        C17_Case(s) =>
            LET report == resp[s].body.content[1].text
            IN  /\ report.tag = "MakefileReport"
                /\ report.issues = C17_MissingMarkerIssues
                /\ \E i \in DOMAIN report.fixes : HasCocotbMarker(report.fixes[i].adds)
                /\ \E i \in DOMAIN report.fixes : HasSourcesMarker(report.fixes[i].adds)

\* C18: the analysis of a build script that is the empty text yields the
\* simulator "not_specified", no targets, no dependencies, and exactly three
\* diagnostics: simulator unset, COCOTB configuration missing,
\* VERILOG_SOURCES missing.
C18_EmptyBuildScript ==
    \A s \in Slots :
        /\ pc[s] = "done" /\ req[s].method = "tools/call"
        /\ req[s].id = "suggest-makefile-fixes"
        /\ fx[s].contents = <<EmptyText>>
        => LET report == resp[s].body.content[1].text
           IN  /\ resp[s].kind = "result"
               /\ report.tag = "MakefileReport"
               /\ report.simulator = "not_specified"
               /\ report.targets = <<>>
               /\ report.dependencies = <<>>
               /\ report.issues =
                     <<"SIM variable not explicitly set - may cause simulator selection issues",
                       "Missing COCOTB configuration variables",
                       "VERILOG_SOURCES not defined - required for compilation">>

C18_Witness ==
    \E s \in Slots :
        /\ pc[s] = "done" /\ req[s].id = "suggest-makefile-fixes"
        /\ fx[s].contents = <<EmptyText>>
        /\ Len(resp[s].body.content[1].text.issues) = 3

\* The invocation of slot s has analysed the first text it read and holds the
\* facts: check-interface-compatibility while it reads the second file,
\* analyze-verilog-syntax while it awaits the lint.
HoldsFacts(s) ==
    \/ pc[s] = "await_read" /\ loc[s].stage = "rtl"
    \/ pc[s] = "await_command" /\ loc[s].stage = "lint"
          /\ loc[s].report.packagesShown /\ loc[s].report.moreSignals = 0

\* The facts it holds.
FactsHeld(s) ==
    IF loc[s].stage = "rtl" THEN loc[s].testbench
    ELSE [syntax_issues |-> <<>>,
          package_dependencies |-> loc[s].report.packages,
          signal_definitions |-> loc[s].report.signals,
          interface_ports |-> loc[s].report.ports]

C20_TestTypes == {"basic", "advanced", "csr", "performance", "all", "bogus", Undefined}

\* The words of the command that assign SIM.
SimAssignments(words) ==
    {i \in DOMAIN words : words[i] \in {"SIM=verilator", "SIM=icarus", "SIM="}}

\* C20: every subprocess run-filter-simulation starts carries SIM=verilator in
\* its command, whatever test_type, debug and waves are: the command string
\* begins with that assignment and holds no other assignment of SIM, and it is
\* the first word the shell hands to bash after -c.
C20_SimulationRunsVerilator ==
    /\ \A tt \in C20_TestTypes : \A d, w \in BOOLEAN :
          /\ Head(FullCommand(tt, d, w)) = "SIM=verilator"
          /\ SimAssignments(FullCommand(tt, d, w)) = {1}
    /\ \A s \in Slots :
          Spawned(s) /\ fx[s].handler = "run-filter-simulation" =>
              /\ run[s].command = "bash"
              /\ Len(run[s].args) = 2 /\ run[s].args[1] = <<"-c">>
              /\ Head(run[s].args[2]) = "SIM=verilator"
              /\ SimAssignments(run[s].args[2]) = {1}
              /\ SimAssignments(run[s].shellLine) = {3}
              /\ ShellExec(run[s].shellLine).argv[2] = "SIM=verilator"

C20_Witness ==
    \E s \in Slots :
        /\ Spawned(s) /\ fx[s].handler = "run-filter-simulation"
        /\ req[s].args = [test_type |-> "basic", waves |-> TRUE]
        /\ run[s].args[2] =
              <<"SIM=verilator", "WAVES=1", "EXTRA_ARGS=--trace", "--trace-structs",
                "TESTCASE=test_filter_basic", "make", "test">>

\* The text assigns SIM: the pattern of the simulator finds a match in it.
HasSimAssignment(t) == \E i \in 1..Len(t) : SimMatchAt(t, i) # 0

\* One diagnostic for each check the text violates, in the order of the
\* checks: simulator unset, COCOTB marker absent, VERILOG_SOURCES marker absent.
C21_DiagnosticsOf(t) ==
    (IF ~HasSimAssignment(t)
     THEN <<"SIM variable not explicitly set - may cause simulator selection issues">>
     ELSE <<>>)
    \o (IF ~HasCocotbMarker(t)
        THEN <<"Missing COCOTB configuration variables">> ELSE <<>>)
    \o (IF ~HasSourcesMarker(t)
        THEN <<"VERILOG_SOURCES not defined - required for compilation">> ELSE <<>>)

\* The suggest-makefile-fixes call of slot s has read its build script and
\* returned.
MakefileAnalysed(s) ==
    /\ pc[s] = "done" /\ req[s].id = "suggest-makefile-fixes"
    /\ Len(fx[s].contents) = 1

\* C21: for every build-script text the analysis emits exactly one
\* diagnostic for each violated check and none for a satisfied one, in the
\* order simulator unset, COCOTB marker absent, VERILOG_SOURCES marker absent.
C21_OneDiagnosticPerViolatedCheck ==
    \A s \in TextSlots :
        MakefileAnalysed(s) =>
            resp[s].body.content[1].text.issues = C21_DiagnosticsOf(fx[s].contents[1])

\* No entry of the list occurs in it twice.
NoRepeats(list) == \A i, j \in DOMAIN list : i # j => list[i] # list[j]

\* C22: the dependencies, signals and ports the extractor returns are sets:
\* no name occurs more than once in any of the three, even when the text
\* declares or imports it several times.
C22_FactsAreSets ==
    \A s \in TextSlots :
        HoldsFacts(s) =>
            /\ NoRepeats(FactsHeld(s).package_dependencies)
            /\ NoRepeats(FactsHeld(s).signal_definitions)
            /\ NoRepeats(FactsHeld(s).interface_ports)

\* The type and direction keywords of the declaration patterns.
DeclarationKeywords == {"logic", "wire", "reg", "input", "output", "inout"}

\* The entry is one identifier: a single token of word characters that is
\* not a keyword.
IsIdentifierToken(entry) ==
    Len(entry) = 1 /\ IsWord(entry[1]) /\ entry[1] \notin DeclarationKeywords

\* C23: every entry that signal extraction and port extraction collect is the
\* trailing identifier of the declaration, word characters only: never a
\* token that still carries a bit range, never a type or direction keyword.
C23_EntriesAreIdentifiers ==
    \A s \in TextSlots :
        HoldsFacts(s) =>
            /\ \A i \in DOMAIN FactsHeld(s).signal_definitions :
                  IsIdentifierToken(FactsHeld(s).signal_definitions[i])
            /\ \A i \in DOMAIN FactsHeld(s).interface_ports :
                  IsIdentifierToken(FactsHeld(s).interface_ports[i])

\* No position of the text starts a match of any of the three patterns.
NonMatching(t) ==
    \A i \in 1..Len(t) :
        ImportMatchEnd(t, i) = 0 /\ SignalMatchEnd(t, i) = 0 /\ PortMatchEnd(t, i) = 0

NoFacts ==
    [syntax_issues |-> <<>>, package_dependencies |-> <<>>,
     signal_definitions |-> <<>>, interface_ports |-> <<>>]

\* C24: for the empty text and for every text that matches none of the
\* patterns the extractor returns no dependencies, no signals, no ports and
\* no issues, and raises no error: the tool goes on to its lint and returns
\* its report, never the analysis-failed text.
C24_NonMatchingTextYieldsNothing ==
    \A s \in TextSlots :
        /\ req[s].method = "tools/call"
        /\ Len(fx[s].contents) >= 1 /\ NonMatching(fx[s].contents[1])
        => /\ HoldsFacts(s) => FactsHeld(s) = NoFacts
           /\ req[s].id = "check-interface-compatibility"
                 /\ Len(fx[s].contents) = 1 /\ fx[s].failures = <<>> =>
                 pc[s] = "await_read" /\ loc[s].stage = "rtl"
           /\ req[s].id = "analyze-verilog-syntax" =>
                 /\ pc[s] \in {"await_command", "done"}
                 /\ pc[s] = "done" =>
                       LET text == resp[s].body.content[1].text
                       IN  /\ text.tag = "VerilogReportWithLint"
                           /\ text.report.packages = <<>>
                           /\ text.report.signals = <<>>
                           /\ text.report.ports = <<>>

C24_Witness ==
    \E s \in TextSlots :
        /\ pc[s] = "done" /\ req[s].id = "analyze-verilog-syntax"
        /\ fx[s].contents = <<CommentText>>
        /\ resp[s].body.content[1].text.tag = "VerilogReportWithLint"
        /\ resp[s].body.content[1].text.report.signals = <<>>

\* C25: each run of executeCommand settles exactly once.  Whatever the order
\* of the child's 'error' and 'close' events, the event that is handled while
\* the promise is pending settles it with its own outcome (the spawn error,
\* or the outcome of the exit status with the output collected so far), and
\* no later 'error', 'close' or 'data' event changes a settled promise.
ErrorHandled(s) == ~child[s].errored /\ child'[s].errored
CloseHandled(s) == ~child[s].closed /\ child'[s].closed

OutcomeOfClose(r, status) ==
    IF ExitedZero(status)
    THEN [state |-> "resolved", value |-> [stdout |-> r.stdout, stderr |-> r.stderr]]
    ELSE [state |-> "rejected", reason |-> CommandFailedError(status, r.stderr)]

C25_SettledOnceByFirstEvent ==
    [][\A s \in EventSlots :
          Spawned(s) /\ run'[s].state = "spawned" =>
              /\ run[s].promise.state # "pending" => run'[s].promise = run[s].promise
              /\ (run[s].promise.state = "pending") = (~child[s].errored /\ ~child[s].closed)
              /\ run[s].promise.state = "pending" /\ ErrorHandled(s) =>
                     run'[s].promise =
                         [state |-> "rejected", reason |-> SpawnError(run[s].cwd)]
              /\ run[s].promise.state = "pending" /\ CloseHandled(s) =>
                     run'[s].promise = OutcomeOfClose(run[s], child'[s].status)
              /\ run[s].promise.state = "pending" /\ run'[s].promise.state # "pending" =>
                     ErrorHandled(s) \/ CloseHandled(s)]_vars

\* A run that resolved at its 'close', and then saw an 'error' and more data.
C25_Witness ==
    \E s \in EventSlots :
        /\ Resolved(s)
        /\ child[s].errored /\ child[s].closed
        /\ run[s].stdout # run[s].promise.value.stdout

\* C26: in run-filter-simulation the access check of the test directory
\* precedes the spawn.  While the check is awaited nothing has been spawned;
\* an invocation whose check failed never spawns and answers with the single
\* 'simulation failed' text block; an invocation spawns at most once, and only
\* with the check passed.
InSimulation(s) == fx[s].handler = "run-filter-simulation"

C26_AccessPrecedesSpawn ==
    \A s \in Slots :
        InSimulation(s) =>
            /\ fx[s].spawns <= 1
            /\ fx[s].spawns = 1 => fx[s].accesses = <<TestDir>>
            /\ pc[s] = "await_access" =>
                   fx[s].spawns = 0 /\ run[s] = NoRun /\ child[s] = NoChild
            /\ fx[s].spawns = 1 => "access" \notin Range(fx[s].failures)
            /\ (run[s] # NoRun \/ child[s] # NoChild) => fx[s].spawns = 1
            /\ "access" \in Range(fx[s].failures) =>
                   /\ fx[s].spawns = 0 /\ run[s] = NoRun /\ child[s] = NoChild
                   /\ pc[s] = "done"
                   /\ resp[s] = ToolResult(SimulationFailedText(AccessError(TestDir)))
                   /\ Len(resp[s].body.content) = 1

\* An invocation that found the directory inaccessible and has its answer.
C26_Witness ==
    \E s \in Slots :
        /\ InSimulation(s)
        /\ fx[s].failures = <<"access">>
        /\ fx[s].spawns = 0
        /\ resp[s] = ToolResult(SimulationFailedText(AccessError(TestDir)))

\* The words of the form NAME=value, the value without white space.
AssignmentWords ==
    {"SIM=verilator", "COCOTB_DEBUG=1", "WAVES=1", "EXTRA_ARGS=--trace",
     "TESTCASE=test_filter_basic", "TESTCASE=test_filter_advanced",
     "TESTCASE=test_csr_interface", "TESTCASE=test_performance"}

TestcaseAssignments(words) ==
    {w \in Range(words) :
        w \in {"TESTCASE=test_filter_basic", "TESTCASE=test_filter_advanced",
               "TESTCASE=test_csr_interface", "TESTCASE=test_performance"}}

\* C27: the command string run-filter-simulation hands to the runner is a
\* list of NAME=value assignments separated by single spaces, no value holding
\* white space, followed by the words make test; it holds COCOTB_DEBUG=1 iff
\* debug, WAVES=1 iff waves, and the TESTCASE of the test_type, none for "all".
C27_CommandIsAssignmentsThenMakeTest ==
    \A s \in Slots :
        Spawned(s) /\ InSimulation(s) =>
            LET c == run[s].args[2]
                n == Len(c)
                a == req[s].args
            IN  /\ n >= 2 /\ c[n - 1] = "make" /\ c[n] = "test"
                /\ \A i \in 1..(n - 2) : c[i] \in AssignmentWords
                /\ ("COCOTB_DEBUG=1" \in Range(c)) = Arg(a, "debug", FALSE)
                /\ ("WAVES=1" \in Range(c)) = Arg(a, "waves", FALSE)
                /\ TestcaseAssignments(c) = Range(TestcaseWords(Arg(a, "test_type", Undefined)))

\* C28: in analyze-verilog-syntax the file is read and its facts extracted
\* before the lint subprocess is started.  While the read is awaited nothing
\* has been spawned; a failed read means no spawn and the single 'analysis
\* failed' block; a subprocess is started at most once and only after a read
\* that succeeded; and a lint run that could not start or exited non-zero
\* still yields the full report (packages when requested, signals, ports),
\* the failure appended as its lint issues.
InSyntaxAnalysis(s) == fx[s].handler = "analyze-verilog-syntax"

ReportOfRequest(s) ==
    VerilogReport(Arg(req[s].args, "file_path", UndefinedPath),
                  Arg(req[s].args, "check_packages", TRUE),
                  ExtractVerilog(fx[s].contents[1]))

C28_ReadPrecedesLint ==
    \A s \in Slots :
        InSyntaxAnalysis(s) =>
            /\ fx[s].spawns <= 1
            /\ pc[s] = "await_read" =>
                   fx[s].spawns = 0 /\ run[s] = NoRun /\ child[s] = NoChild
            /\ (fx[s].spawns = 1 \/ run[s] # NoRun \/ child[s] # NoChild) =>
                   /\ fx[s].spawns = 1
                   /\ Len(fx[s].contents) = 1
                   /\ "read" \notin Range(fx[s].failures)
                   /\ run[s].command = "verilator"
                   /\ pc[s] = "await_command" => loc[s].report = ReportOfRequest(s)
            /\ "read" \in Range(fx[s].failures) =>
                   /\ fx[s].spawns = 0 /\ run[s] = NoRun /\ child[s] = NoChild
                   /\ pc[s] = "done"
                   /\ Len(resp[s].body.content) = 1
                   /\ resp[s].body.content[1].text.tag = "VerilogFailed"
            /\ "command" \in Range(fx[s].failures) =>
                   /\ pc[s] = "done"
                   /\ Rejected(s)
                   /\ resp[s] = ToolResult(
                          [tag |-> "VerilogReportWithLint",
                           report |-> ReportOfRequest(s),
                           lintClean |-> FALSE,
                           lintIssues |-> <<run[s].promise.reason>>])
                   /\ resp[s].body.content[1].text.report.packagesShown =
                          Arg(req[s].args, "check_packages", TRUE)

\* The lint run of a file that was read could not start; the answer is the
\* report of a file that has ports.
C28_Witness ==
    \E s \in Slots :
        /\ InSyntaxAnalysis(s)
        /\ pc[s] = "done"
        /\ fx[s].failures = <<"command">>
        /\ run[s].promise.state = "rejected"
        /\ run[s].promise.reason.kind = "SpawnError"
        /\ resp[s].body.content[1].text.tag = "VerilogReportWithLint"
        /\ resp[s].body.content[1].text.report.ports # <<>>

\* How many entries of the list are the port p.
Occurrences(list, p) == Cardinality({i \in DOMAIN list : list[i] = p})

InInterfaceCheck(s) == fx[s].handler = "check-interface-compatibility"

\* C29: in check-interface-compatibility, for every pair of port lists, the
\* matching list and the testbench-only list partition the testbench ports
\* (each testbench port, as often as it is declared, is in exactly one of
\* them: the matching list if the RTL has it, the other if not); the RTL-only
\* list holds exactly the RTL ports the testbench lacks; the score is the
\* matching count * 100 / max(testbench port count, 1), between 0 and 100 and
\* 0 for a testbench without ports; the low-compatibility recommendation is
\* there iff the score is below 80; and when either file cannot be read the
\* answer is the single failure block, no report.
C29_InterfaceReportIsPartitionAndScore ==
    \A s \in TextSlots :
        InInterfaceCheck(s) /\ pc[s] = "done" /\ req[s].hasArgs =>
            /\ fx[s].spawns = 0
            /\ Len(resp[s].body.content) = 1
            /\ fx[s].failures # <<>> =>
                   /\ fx[s].failures = <<"read">>
                   /\ resp[s].body.content[1].text.tag = "InterfaceFailed"
            /\ fx[s].failures = <<>> =>
                   LET r == resp[s].body.content[1].text
                       tb == ExtractVerilog(fx[s].contents[1]).interface_ports
                       rtl == ExtractVerilog(fx[s].contents[2]).interface_ports
                       den == IF Len(tb) > 1 THEN Len(tb) ELSE 1
                   IN  /\ r.tag = "InterfaceReport"
                       /\ Len(fx[s].contents) = 2
                       /\ Range(r.matching) \cap Range(r.testbenchOnly) = {}
                       /\ Range(r.matching) = Range(tb) \cap Range(rtl)
                       /\ Range(r.testbenchOnly) = Range(tb) \ Range(rtl)
                       /\ \A p \in Range(tb) :
                              Occurrences(r.matching, p) + Occurrences(r.testbenchOnly, p)
                                  = Occurrences(tb, p)
                       /\ Len(r.matching) + Len(r.testbenchOnly) = Len(tb)
                       /\ Range(r.rtlOnly) = Range(rtl) \ Range(tb)
                       /\ \A p \in Range(r.rtlOnly) :
                              Occurrences(r.rtlOnly, p) = Occurrences(rtl, p)
                       /\ r.scoreTenths >= 0 /\ r.scoreTenths <= 1000
                       /\ 2 * den * r.scoreTenths - 2000 * Len(r.matching) <= den
                       /\ 2000 * Len(r.matching) - 2 * den * r.scoreTenths <= den
                       /\ tb = <<>> => r.scoreTenths = 0 /\ r.lowScore
                       /\ r.lowScore = (100 * Len(r.matching) < 80 * den)

\* Four of the five testbench ports are ports of the RTL: the score is 80.0,
\* no recommendation, and each of the three lists has an entry.
C29_Witness ==
    \E s \in TextSlots :
        /\ InInterfaceCheck(s) /\ pc[s] = "done" /\ fx[s].failures = <<>>
        /\ LET r == resp[s].body.content[1].text
           IN  /\ r.tag = "InterfaceReport"
               /\ Len(r.matching) = 4 /\ Len(r.testbenchOnly) = 1 /\ Len(r.rtlOnly) = 1
               /\ r.scoreTenths = 800 /\ ~r.lowScore

InComplianceCheck(s) == fx[s].handler = "check-requirements-compliance"

\* The names of the checks of a report, in order.
CheckNames(checks) == [i \in DOMAIN checks |-> checks[i].name]

C30_FunctionalNames ==
    <<"IPv4/IPv6 Filtering", "Port-based Filtering", "Statistics Counters">>
C30_InterfaceNames == <<"AXI-Stream Interface", "AXI-Lite CSR Interface">>
C30_PerformanceNames == <<"Throughput Maintenance", "Clock Domain">>

\* C30: check-requirements-compliance is a function of requirement_type alone
\* and touches no file and no subprocess: its answer is ready when the call
\* returns, with no read, no access and no spawn; "functional" yields its 3
\* checks, "interface" its 2, "performance" its 2, and "all" the 7 checks,
\* functional then interface then performance; every status is the positive
\* one, and so is the overall status.
C30_ComplianceIsFixedTable ==
    \A s \in Slots :
        InComplianceCheck(s) /\ req[s].hasArgs =>
            LET t == Arg(req[s].args, "requirement_type", Undefined)
                r == resp[s].body.content[1].text
            IN  /\ pc[s] = "done"
                /\ fx[s].reads = <<>> /\ fx[s].accesses = <<>> /\ fx[s].spawns = 0
                /\ fx[s].failures = <<>> /\ fx[s].contents = <<>>
                /\ run[s] = NoRun /\ child[s] = NoChild
                /\ resp[s] = ToolResult(ComplianceReport(t))
                /\ Len(resp[s].body.content) = 1
                /\ r.tag = "ComplianceReport"
                /\ t = "functional" => CheckNames(r.checks) = C30_FunctionalNames
                /\ t = "interface" => CheckNames(r.checks) = C30_InterfaceNames
                /\ t = "performance" => CheckNames(r.checks) = C30_PerformanceNames
                /\ t = "all" =>
                       /\ Len(r.checks) = 7
                       /\ CheckNames(r.checks) =
                              C30_FunctionalNames \o C30_InterfaceNames
                                  \o C30_PerformanceNames
                /\ \A i \in DOMAIN r.checks : r.checks[i].status.positive
                /\ r.overall = "All specified requirements met"

\* The answer to requirement_type "all": seven checks, the last of them the
\* clock domain.
C30_Witness ==
    \E s \in Slots :
        /\ InComplianceCheck(s) /\ pc[s] = "done"
        /\ req[s].args = [requirement_type |-> "all"]
        /\ Len(resp[s].body.content[1].text.checks) = 7
        /\ resp[s].body.content[1].text.checks[7].name = "Clock Domain"

====
